---- MODULE Spec2Model ----
(***************************************************************************)
(* State-machine model of the GPIO bridge daemon                           *)
(* (src/deamon/daemon_gpio/daemon_gpio.py): USBGPIOController and          *)
(* GPIOControlDaemon.                                                      *)
(*                                                                         *)
(* The specifications share the variables:                                 *)
(*   Spec       the pin-set path: per-command worker threads running       *)
(*              USBGPIOController.set_gpio on one controller, step by step *)
(*   SpecCtl    handle_control_command: the routing of datagrams           *)
(*   SpecStart  __init__ with devices that fail to open, then service      *)
(*   SpecSpi    the SPI queue, its worker and the bit-banged set_spi       *)
(*   SpecStop   stop() against the SPI queue and its worker                *)
(*   SpecLoops  the long-lived loops and the running flag                  *)
(*   SpecTrace  one SPI transfer from an empty cache                       *)
(*   SpecMon    the monitor listeners, the change buffer and its flush loop*)
(*   SpecFrame  the real listener on chunks that split a report            *)
(*   SpecFlush  the listeners against a fairly scheduled flush loop        *)
(*   SpecSub    status subscribers that connect, fail and are removed      *)
(*   SpecQuery  one subscriber whose query_status messages are read        *)
(*   SpecIo     device handles: enable command, I/O error, reconnect, stop *)
(*   SpecDecode the decode buffer on token streams cut into reads          *)
(*   SpecBlank  one SPI transfer whose bitstring carries whitespace        *)
(*   SpecLag    the SPI worker under every configured lag_time             *)
(*   SpecLock   the registry lock and the sends on subscriber sockets      *)
(*   SpecBcast  the broadcast, send by send, to subscribers that come and  *)
(*              go                                                         *)
(*   SpecSend   set commands on a device whose handle closes and reopens   *)
(*   SpecOrder  set commands for one pin, told apart by arrival order      *)
(*   SpecSimMon a monitor that fell back to simulation, and the flush loop *)
(*   SpecMix    set commands for a controller in the middle of an SPI      *)
(*              transfer                                                   *)
(* Each specification holds the variables of the others at their initial   *)
(* values.                                                                 *)
(***************************************************************************)
EXTENDS Integers, Sequences, FiniteSets, TLC

VARIABLES
    current_gpio_states,  \* USBGPIOController.current_gpio_states, per alias: pin -> state or None
    frames,               \* what serial.write put on each controller's wire, in order
    set_call,             \* per command thread: the locals of its set_gpio call
    set_obs,              \* per command thread: what is recorded about its call (history variable)
    set_hist,             \* history: how many set commands were received, and what happened so far
    simulate,             \* USBGPIOController.simulate, per alias
    spi_queue,            \* GPIOControlDaemon.spi_queue: the SPI tasks waiting, oldest first
    spi_unfinished,       \* queue.Queue.unfinished_tasks of spi_queue (put without task_done)
    spi_processing_lock,  \* holder of GPIOControlDaemon.spi_processing_lock, or None
    spi_exec,             \* per thread: the SPI task it is executing and the locals of its set_spi call
    spi_hist,             \* history: the SPI commands received per alias, the tasks taken and finished
    data_buffer,          \* USBGPIOController.data_buffer, per monitor alias
    gpio_last_states,     \* GPIOControlDaemon.gpio_last_states: alias -> pin -> state or None
    daemon_gpio_states,   \* GPIOControlDaemon.current_gpio_states: alias -> pin -> state or None
    mon_loop,             \* per listener: the gpio_states items its loop has still to check
    gpio_change_buffer,   \* GPIOControlDaemon.gpio_change_buffer: alias -> list of gpio_info
    message_id_counter,   \* GPIOControlDaemon.message_id_counter
    flush_call,           \* the flush loop's send_buffered_gpio_status call
    sent,                 \* how many gpio_change messages were issued, and the latest one
    last_event,           \* history: per alias, the latest change handed to broadcast_gpio_status
    mon_hist,             \* history: the latest reads of the real monitor, the latest flush, counts, the changes handed over and not yet sent
    controllers,          \* GPIOControlDaemon.controllers: the aliases registered (keys of the dict)
    running,              \* GPIOControlDaemon.running
    stop_call,            \* the position of the stop() call, and what the queue held when it began
    loop_pc,              \* per long-lived loop other than the SPI worker: where it is
    status_sent,          \* the latest current_status message sent to a subscriber (<<>>: none)
    ctl_hist,             \* history: the control datagrams handled so far
    status_clients,       \* GPIOControlDaemon.status_clients: the registered subscriber sockets, in order
    sub,                  \* per subscriber: its handle_status_client thread, its socket, its peer, its bytes
    mon_started,          \* start_gpio_monitoring has created gpio_default_states and gpio_last_states
    gpio_reporting_active, \* GPIOControlDaemon.gpio_reporting_active: aliases added at lines 678/683
    ser_open,             \* per alias: controller.ser is an open serial.Serial
    enable_frames,        \* per alias: what start_gpio_monitoring wrote with controller.ser.write
    io_hist,              \* history: per alias, the reconnects of the listener and what followed
    sockets,              \* the control and status sockets and the socket files on disk
    lag_config,           \* per SPI alias: controller_configs[alias]['config'].get('lag_time')
    status_clients_lock,  \* GPIOControlDaemon.status_clients_lock: "free" or the thread holding it
    send_call             \* the sends in progress: the flush loop's broadcast, who is inside send per subscriber

(***************************************************************************)
(* Values                                                                  *)
(***************************************************************************)
\* Python's None, as returned by dict.get for a missing key
None == -1

Bits == {0, 1}

\* first byte of a pin-set frame (0x3A)
CMD_SET == 58

\* the controller the set commands address (alias "sender" of the tests)
SetAlias == "sender"

\* pins the modelled set commands name
SetPins == {5, 6}

\* the controllers configured with mode "spi"
SpiAliases == {"spi", "spi2"}

\* the controllers configured with mode "geter" (monitor); "geter" is a real
\* controller, "geter2" one that runs simulated
GeterAliases == {"geter", "geter2"}

\* default_bit of the monitor controllers' configuration
DefaultBit == [geter |-> 0, geter2 |-> 1]

Aliases == {SetAlias} \cup SpiAliases \cup GeterAliases

\* lines 664-671: the command that enables continuous reporting, 0x3E 0xFF
\* for default_bit 0 and 0x3D 0xFF otherwise
EnableFrame(default_bit) == IF default_bit = 0 THEN <<62, 255>> ELSE <<61, 255>>

\* a listener that has met no I/O error: no successful reconnect, and the
\* number of enable commands written when the last one succeeded
NoIo == [reconnected |-> FALSE, mark |-> 0]

\* socket_path and get_statu_path of the configuration
SocketFiles == {"/tmp/gpio.sock", "/tmp/gpio_get.sock"}

\* lines 398-427: both sockets bound and open, their files on disk
SocketsOpen == [control |-> "open", status |-> "open", files |-> SocketFiles]

\* before the sockets are created
SocketsNone == [control |-> "none", status |-> "none", files |-> {}]

\* lines 1018-1029 and 1047-1063: both sockets closed, both files unlinked
SocketsClosed == [control |-> "closed", status |-> "closed", files |-> {}]

\* the status subscribers that may connect
Subs == {1, 2}

\* a subscriber that has not connected: no thread, no socket, nothing written
NoSub ==
    [pc |-> "none", chan |-> "none", peer |-> "none", stream |-> <<>>,
     nwrite |-> 0, nquery |-> 0, nstatus |-> 0, last_id |-> 0]

\* no broadcast under way and no thread inside a send on any subscriber socket
NoSend == [id |-> 0, todo |-> <<>>, disconnected |-> {}, busy |-> [s \in Subs |-> {}]]

\* the pins the modelled telemetry reports
MonPins == 1..3

\* pin numbers the modelled commands and configurations use
Pins == 1..6

(***************************************************************************)
(* Bounds                                                                  *)
(***************************************************************************)
\* set commands received in one run
MaxCalls == 3

\* SPI commands received in one run
MaxSpiCmds == 3

\* reads (and simulated rounds) of the monitor listeners in one run
MaxReads == 5

\* reads of the monitor listener in one run of the framing specification
MaxFrameReads == 3

\* pins 1..MaxSimPin are drawn by a simulated monitor (16 in the source)
MaxSimPin == 1

\* the per-command worker threads that can be alive at the same time
Threads == {1, 2}

\* the SPI worker thread started by start_spi_worker
SpiWorker == 0

\* every thread that can run code of the daemon's control path
Executors == {SpiWorker} \cup Threads

setVars == <<set_call, set_obs, set_hist>>

spiVars == <<simulate, spi_queue, spi_unfinished, spi_processing_lock, spi_exec, spi_hist>>

ctlVars == <<current_gpio_states, frames>>

monVars == <<data_buffer, gpio_last_states, daemon_gpio_states, mon_loop, gpio_change_buffer,
             message_id_counter, flush_call, sent, last_event, mon_hist>>

devVars == <<gpio_reporting_active, ser_open, enable_frames, io_hist, sockets, lag_config>>

lockVars == <<status_clients_lock, send_call>>

ioVars == <<status_clients, sub, mon_started, devVars, lockVars>>

dmnVars == <<controllers, running, stop_call, loop_pc, status_sent, ctl_hist, ioVars>>

vars == <<ctlVars, setVars, spiVars, monVars, dmnVars>>

(***************************************************************************)
(* Python dicts as sequences of <<key, value>> in insertion order          *)
(***************************************************************************)
RECURSIVE DictHas(_, _)
DictHas(d, k) ==
    IF d = <<>> THEN FALSE
    ELSE IF Head(d)[1] = k THEN TRUE ELSE DictHas(Tail(d), k)

\* d[k] = v: an existing key keeps its position, a new key goes last
DictSet(d, k, v) ==
    IF DictHas(d, k)
    THEN [i \in 1..Len(d) |-> IF d[i][1] = k THEN <<k, v>> ELSE d[i]]
    ELSE Append(d, <<k, v>>)

RECURSIVE DictZipFrom(_, _, _)
DictZipFrom(d, ks, vs) ==
    IF ks = <<>> \/ vs = <<>> THEN d
    ELSE DictZipFrom(DictSet(d, Head(ks), Head(vs)), Tail(ks), Tail(vs))

\* dict(zip(gpios, values))
DictZip(ks, vs) == DictZipFrom(<<>>, ks, vs)

(***************************************************************************)
(* Set commands (control datagrams with mode "set")                        *)
(***************************************************************************)
SetSingleCmds ==
    {[alias |-> SetAlias, mode |-> "set", kind |-> "single", gpios |-> <<p>>, values |-> <<v>>] :
        p \in SetPins, v \in Bits}

SetBatchCmds ==
    {[alias |-> SetAlias, mode |-> "set", kind |-> "batch", gpios |-> <<5, 6>>, values |-> <<v, 1 - v>>] :
        v \in Bits}

SetCmds == SetSingleCmds \cup SetBatchCmds

\* controller_configs[alias]['mode']
ControllerMode ==
    [a \in Aliases |->
        IF a \in SpiAliases THEN "spi" ELSE IF a \in GeterAliases THEN "geter" ELSE "sender"]

\* a batch routing that zips arrays of different lengths instead of dropping
\* the command
RoutesSetZipping(command) == command.kind \in {"single", "batch"}

\* lines 450-473: a set command reaches set_gpio when it names one pin and one
\* value, or two arrays of the same length
RoutesSet(command) ==
    \/ command.kind = "single"
    \/ command.kind = "batch" /\ Len(command.gpios) = Len(command.values)

\* the gpio_states dict handle_control_command hands to set_gpio
GpioStatesOf(cmd) == DictZip(cmd.gpios, cmd.values)

(***************************************************************************)
(* USBGPIOController.set_gpio                                              *)
(***************************************************************************)
\* a plausible slip: a pin never set before is taken as unchanged
ChangedIgnoringFirst(current_state, state) ==
    current_state # None /\ current_state # state

\* line 121: first time set, or the state differs from the cached one
Changed(current_state, state) ==
    current_state = None \/ current_state # state

RECURSIVE FrameBody(_)
FrameBody(changed) ==
    IF changed = <<>> THEN <<>>
    ELSE <<Head(changed)[1], Head(changed)[2]>> \o FrameBody(Tail(changed))

\* lines 130-133: 0x3A pin state [pin state ...]
SetFrame(changed) == <<CMD_SET>> \o FrameBody(changed)

IdleCall == [pc |-> "idle", alias |-> SetAlias, items |-> <<>>, changed |-> <<>>]

NoObs == [ret |-> None, diff |-> FALSE, wrote |-> 0, failed |-> FALSE, reconnects |-> 0,
          pre |-> [p \in Pins |-> None], req |-> <<>>]

InFlight(t) == set_call[t].pc # "idle"

NextPc(items) == IF items = <<>> THEN "send" ELSE "get"

\* the claim's notion of a call that differs: some requested value is not the cached one
Differs(cache, items) ==
    \E i \in 1..Len(items) : cache[items[i][1]] # items[i][2]

\* an ingress loop that calls set_gpio itself instead of starting a thread: the
\* frame is on the wire before the next datagram can be received
HandleSetCommandInline(t, cmd) ==
    /\ ~InFlight(t)
    /\ \A u \in Threads : u < t => InFlight(u)
    /\ set_hist.ncalls < MaxCalls
    /\ RoutesSet(cmd)
    /\ LET items == GpioStatesOf(cmd) IN
        /\ frames' = [frames EXCEPT ![cmd.alias] = Append(@, SetFrame(items))]
        /\ current_gpio_states' = [current_gpio_states EXCEPT
              ![cmd.alias] = [p \in Pins |-> IF \E i \in 1..Len(items) : items[i][1] = p
                                  THEN items[CHOOSE i \in 1..Len(items) : items[i][1] = p][2]
                                  ELSE @[p]]]
        /\ set_hist' = [set_hist EXCEPT
              !.ncalls = @ + 1,
              !.first = IF set_hist.ncalls = 0 THEN items ELSE @,
              !.allsame = @ /\ (set_hist.ncalls = 0 \/ set_hist.first = items)]
    /\ UNCHANGED <<dmnVars, set_call, set_obs, spiVars, monVars>>

\* run loop (lines 986-996) + handle_control_command (lines 449-473): a datagram
\* is received, a thread is started for it, and the thread enters set_gpio
HandleSetCommand(t, cmd) ==
    /\ ~InFlight(t)
    /\ \A u \in Threads : u < t => InFlight(u)
    /\ set_hist.ncalls < MaxCalls
    /\ RoutesSet(cmd)
    /\ LET items == GpioStatesOf(cmd) IN
        /\ set_call' = [set_call EXCEPT ![t] =
              [pc |-> NextPc(items), alias |-> cmd.alias, items |-> items, changed |-> <<>>]]
        /\ set_obs' = [set_obs EXCEPT ![t] =
              [ret |-> None, diff |-> Differs(current_gpio_states[cmd.alias], items),
               wrote |-> 0, failed |-> FALSE, reconnects |-> 0,
               pre |-> current_gpio_states[cmd.alias], req |-> items]]
        /\ set_hist' = [set_hist EXCEPT
              !.ncalls = @ + 1,
              !.first = IF set_hist.ncalls = 0 THEN items ELSE @,
              !.allsame = @ /\ (set_hist.ncalls = 0 \/ set_hist.first = items),
              !.overlap = @ \/ (\E u \in Threads : u # t /\ InFlight(u)),
              !.ndiff = @ + (IF Differs(current_gpio_states[cmd.alias], items) THEN 1 ELSE 0)]
    /\ UNCHANGED <<dmnVars, current_gpio_states, frames, spiVars, monVars>>

\* lines 114-121: one iteration of the loop up to the comparison; an unchanged
\* pin is passed over
SetGpioGet(t) ==
    /\ set_call[t].pc = "get"
    /\ LET c == set_call[t]
           gpio_pin == Head(c.items)[1]
           state == Head(c.items)[2]
           current_state == current_gpio_states[c.alias][gpio_pin]
       IN IF Changed(current_state, state)
          THEN set_call' = [set_call EXCEPT ![t].pc = "store"]
          ELSE set_call' = [set_call EXCEPT ![t].items = Tail(c.items),
                                            ![t].pc = NextPc(Tail(c.items))]
    /\ UNCHANGED <<dmnVars, current_gpio_states, frames, set_obs, set_hist, spiVars, monVars>>

\* lines 122-123: record the change and update the cache, before anything is sent
SetGpioStore(t) ==
    /\ set_call[t].pc = "store"
    /\ LET c == set_call[t]
           gpio_pin == Head(c.items)[1]
           state == Head(c.items)[2]
       IN /\ current_gpio_states' =
                [current_gpio_states EXCEPT ![c.alias][gpio_pin] = state]
          /\ set_call' = [set_call EXCEPT ![t].changed = DictSet(c.changed, gpio_pin, state),
                                          ![t].items = Tail(c.items),
                                          ![t].pc = NextPc(Tail(c.items))]
    /\ UNCHANGED <<dmnVars, frames, set_obs, set_hist, spiVars, monVars>>

\* lines 125-127: nothing changed, return True without sending
SetGpioReturnUnchanged(t) ==
    /\ set_call[t].pc = "send"
    /\ set_call[t].changed = <<>>
    /\ set_call' = [set_call EXCEPT ![t] = IdleCall]
    /\ set_obs' = [set_obs EXCEPT ![t].ret = 1]
    /\ UNCHANGED <<dmnVars, current_gpio_states, frames, set_hist, spiVars, monVars>>

\* lines 130-134 with send_command lines 96-98: the frame is written
SetGpioSendOk(t) ==
    /\ set_call[t].pc = "send"
    /\ set_call[t].changed # <<>>
    /\ ~simulate[set_call[t].alias]
    /\ frames' = [frames EXCEPT ![set_call[t].alias] = Append(@, SetFrame(set_call[t].changed))]
    /\ set_call' = [set_call EXCEPT ![t] = IdleCall]
    /\ set_obs' = [set_obs EXCEPT ![t].ret = 1, ![t].wrote = @ + 1]
    /\ ser_open' = [ser_open EXCEPT ![set_call[t].alias] = TRUE]
    /\ UNCHANGED <<controllers, running, stop_call, loop_pc, status_sent, ctl_hist,
                   status_clients, sub, mon_started, gpio_reporting_active, enable_frames,
                   io_hist, sockets, lag_config, lockVars, current_gpio_states, set_hist, spiVars, monVars>>

\* send_command lines 99-105: serial.write raises, send_command returns False;
\* nothing reaches the wire and the cache is left as set_gpio updated it
SetGpioSendFail(t) ==
    /\ set_call[t].pc = "send"
    /\ set_call[t].changed # <<>>
    /\ ~simulate[set_call[t].alias]
    /\ set_call' = [set_call EXCEPT ![t] = IdleCall]
    /\ set_obs' = [set_obs EXCEPT ![t].ret = 0, ![t].failed = TRUE]
    /\ set_hist' = [set_hist EXCEPT !.failed = TRUE]
    /\ UNCHANGED <<dmnVars, current_gpio_states, frames, spiVars, monVars>>

\* send_command lines 90-105 on a real controller, by the state of the handle
\* and by what the device does: reopens says whether reconnect succeeds when
\* the handle is found closed (lines 90-94), writes whether serial.write
\* returns (96-98), reopens_after whether the reconnect of the except branch
\* succeeds (99-105). The result: the return value, the frames written, the
\* calls of reconnect, the state of the handle afterwards
SendCommand(open, reopens, writes, reopens_after) ==
    IF ~open /\ ~reopens
    THEN [ret |-> 0, wrote |-> 0, reconnects |-> 1, failed |-> FALSE, open |-> FALSE]
    ELSE LET before == IF open THEN 0 ELSE 1
         IN IF writes
            THEN [ret |-> 1, wrote |-> 1, reconnects |-> before, failed |-> FALSE,
                  open |-> TRUE]
            ELSE [ret |-> 0, wrote |-> 0, reconnects |-> before + 1, failed |-> TRUE,
                  open |-> reopens_after]

\* lines 130-134: set_gpio hands the frame to send_command and returns what it returns
SetGpioSend(t, reopens, writes, reopens_after) ==
    /\ set_call[t].pc = "send"
    /\ set_call[t].changed # <<>>
    /\ ~simulate[set_call[t].alias]
    /\ LET alias == set_call[t].alias
           r == SendCommand(ser_open[alias], reopens, writes, reopens_after)
       IN /\ frames' = [frames EXCEPT ![alias] =
                           IF r.wrote = 1 THEN Append(@, SetFrame(set_call[t].changed)) ELSE @]
          /\ set_obs' = [set_obs EXCEPT ![t].ret = r.ret, ![t].wrote = @ + r.wrote,
                                        ![t].failed = r.failed,
                                        ![t].reconnects = r.reconnects]
          /\ set_hist' = [set_hist EXCEPT !.failed = @ \/ r.failed]
          /\ ser_open' = [ser_open EXCEPT ![alias] = r.open]
    /\ set_call' = [set_call EXCEPT ![t] = IdleCall]
    /\ UNCHANGED <<controllers, running, stop_call, loop_pc, status_sent, ctl_hist,
                   status_clients, sub, mon_started, gpio_reporting_active, enable_frames,
                   io_hist, sockets, lag_config, lockVars, current_gpio_states, spiVars,
                   monVars>>

RECURSIVE CacheUpdate(_, _)
\* send_command lines 74-80: current_gpio_states[pin] = state for each pair
CacheUpdate(cache, changed) ==
    IF changed = <<>> THEN cache
    ELSE CacheUpdate([cache EXCEPT ![Head(changed)[1]] = Head(changed)[2]], Tail(changed))

\* lines 130-134 with send_command lines 69-88: a simulated controller parses
\* the frame into its own state and returns True; nothing is written
SetGpioSendSim(t) ==
    /\ set_call[t].pc = "send"
    /\ set_call[t].changed # <<>>
    /\ simulate[set_call[t].alias]
    /\ current_gpio_states' = [current_gpio_states EXCEPT ![set_call[t].alias] =
                                  CacheUpdate(@, set_call[t].changed)]
    /\ set_call' = [set_call EXCEPT ![t] = IdleCall]
    /\ set_obs' = [set_obs EXCEPT ![t].ret = 1]
    /\ UNCHANGED <<dmnVars, frames, set_hist, spiVars, monVars>>

(***************************************************************************)
(* SPI commands (control datagrams with mode "spi" and "spi_multi")        *)
(***************************************************************************)
\* controller_configs[alias]['spi_pins']: the keys clk_n, data_n, cs_n that the
\* configuration of an alias carries; "spi" maps buses 1 and 2, "spi2" bus 1
SpiPinConfig ==
    [spi  |-> {<<"clk", 1, 1>>, <<"data", 1, 2>>, <<"cs", 1, 3>>,
               <<"clk", 2, 4>>, <<"data", 2, 5>>, <<"cs", 2, 6>>},
     spi2 |-> {<<"clk", 1, 1>>, <<"data", 1, 2>>, <<"cs", 1, 3>>}]

\* spi_pins.get(f'{kind}_{spi_num}')
SpiPinGet(alias, kind, spi_num) ==
    IF \E e \in SpiPinConfig[alias] : e[1] = kind /\ e[2] = spi_num
    THEN (CHOOSE e \in SpiPinConfig[alias] : e[1] = kind /\ e[2] = spi_num)[3]
    ELSE None

\* Python truth of a looked-up pin number: None and 0 are false
Truthy(pin) == pin # None /\ pin # 0

SpiEntry(n, data, edge) == [spi_num |-> n, spi_data |-> data, cs_collection |-> edge]

SpiCmds ==
    { [alias |-> "spi",  mode |-> "spi", spis |-> <<SpiEntry(1, <<"1", "0">>, "down")>>],
      [alias |-> "spi2", mode |-> "spi", spis |-> <<SpiEntry(1, <<"1", "0">>, "down")>>],
      [alias |-> "spi2", mode |-> "spi", spis |-> <<SpiEntry(1, <<"1", " ", "1">>, "up")>>],
      [alias |-> "spi",  mode |-> "spi", spis |-> <<SpiEntry(2, <<"0", "x">>, "down")>>],
      [alias |-> "spi",  mode |-> "spi_multi",
       spis |-> <<SpiEntry(2, <<"0">>, "up"), SpiEntry(3, <<"1">>, "down"),
                  SpiEntry(1, <<>>, "down")>>] }

\* line 203, int(bit) of one character: the value of a decimal digit; any
\* other character (a letter, a tab, a newline) raises ValueError (None)
DigitValue(ch) ==
    CASE ch = "0" -> 0 [] ch = "1" -> 1 [] ch = "2" -> 2 [] ch = "3" -> 3 [] ch = "4" -> 4
      [] ch = "5" -> 5 [] ch = "6" -> 6 [] ch = "7" -> 7 [] ch = "8" -> 8 [] ch = "9" -> 9
      [] OTHER -> None

\* nothing was received yet
NoSpiHist ==
    [ncmds |-> 0, received |-> [a \in SpiAliases |-> <<>>], ntaken |-> 0, done |-> {},
     puts |-> <<>>]

\* a finite float, as the fraction num / den
Fin(num, den) == [kind |-> "fin", num |-> num, den |-> den]

\* float('nan') and float('inf')
NaN == [kind |-> "nan", num |-> 0, den |-> 1]
Inf == [kind |-> "inf", num |-> 1, den |-> 1]

\* a configured string that float() rejects, and no lag_time key at all
LagText == [kind |-> "text", num |-> 0, den |-> 1]
LagMissing == [kind |-> "missing", num |-> 0, den |-> 1]

\* line 519: float(...get('lag_time', 1.0)); "ValueError" for a string that
\* is no number
LagFloat(cfg) ==
    IF cfg.kind = "missing" THEN Fin(1, 1)
    ELSE IF cfg.kind = "text" THEN "ValueError"
    ELSE cfg

\* line 520: lag_time_ms <= 0; a comparison with nan is false
LessEqZero(f) == f.kind = "fin" /\ f.num <= 0

\* line 524: lag_time_ms / 1000.0
DivFloat(f, k) == IF f.kind = "fin" THEN Fin(f.num, f.den * k) ELSE f

\* lines 518-524: the delay in seconds for a configured lag_time
LagTimeOf(cfg) ==
    LET parsed == LagFloat(cfg)
        lag_time_ms == IF cfg.kind = "text" THEN Fin(1, 1)
                       ELSE IF LessEqZero(parsed) THEN Fin(1, 1) ELSE parsed
    IN DivFloat(lag_time_ms, 1000)

SpiIdle ==
    [pc |-> "idle", alias |-> "", todo |-> <<>>,
     clk_pin |-> None, data_pin |-> None, cs_pin |-> None,
     data |-> <<>>, cs_collection |-> "", i |-> 0,
     last_data_state |-> None, last_clk_state |-> None, lag_time |-> None]

\* a thread is inside a bit-banged transfer: chip-select asserted and not yet
\* deasserted (for a simulated controller: inside the simulated transfer)
InTransaction(e) == spi_exec[e].pc \in {"bit", "clk_first", "clk_second", "sim"}

\* a set_gpio({pin: state}) call made by set_spi, with the write succeeding
SetGpioNow(alias, pin, state) ==
    IF Changed(current_gpio_states[alias][pin], state)
    THEN /\ current_gpio_states' = [current_gpio_states EXCEPT ![alias][pin] = state]
         /\ frames' = [frames EXCEPT ![alias] = Append(@, SetFrame(<<<<pin, state>>>>))]
    ELSE UNCHANGED <<current_gpio_states, frames>>

\* a command thread that runs the SPI transfer itself instead of queueing it
SpiDispatchInline(cmd) ==
    /\ \E t \in Threads :
        /\ spi_exec[t].pc = "idle"
        /\ \A u \in Threads : u < t => spi_exec[u].pc # "idle"
        /\ spi_exec' = [spi_exec EXCEPT ![t] =
              [SpiIdle EXCEPT !.pc = "run", !.alias = cmd.alias, !.todo = cmd.spis]]
    /\ UNCHANGED <<spi_queue, spi_unfinished>>

\* lines 477-487 and 491-501: the task is put on the SPI queue
SpiDispatch(cmd) ==
    /\ spi_queue' = Append(spi_queue, cmd)
    /\ spi_unfinished' = spi_unfinished + 1
    /\ UNCHANGED spi_exec

\* lines 475 and 489: an SPI command is queued when the alias is configured
\* with mode "spi"
RoutesSpi(command) ==
    command.mode \in {"spi", "spi_multi"} /\ ControllerMode[command.alias] = "spi"

\* handle_control_command for mode "spi" / "spi_multi" addressed to an alias
\* whose configured mode is "spi" (lines 475-501)
HandleSpiCommand(cmd) ==
    /\ spi_hist.ncmds < MaxSpiCmds
    /\ RoutesSpi(cmd)
    /\ SpiDispatch(cmd)
    /\ spi_hist' = [spi_hist EXCEPT !.ncmds = @ + 1,
                                    !.received[cmd.alias] = Append(@, <<cmd.mode, cmd.spis>>),
                                    !.puts = Append(@, cmd)]
    /\ UNCHANGED <<dmnVars, ctlVars, setVars, monVars, simulate, spi_processing_lock>>

(***************************************************************************)
(* GPIOControlDaemon.process_spi_queue                                     *)
(***************************************************************************)
\* line 510: the worker finds the running flag set and goes on to wait for a task
SpiLoopEnter ==
    /\ spi_exec[SpiWorker].pc = "idle"
    /\ running
    /\ spi_exec' = [spi_exec EXCEPT ![SpiWorker].pc = "get"]
    /\ UNCHANGED <<dmnVars, ctlVars, setVars, monVars, simulate, spi_queue, spi_unfinished,
                   spi_processing_lock, spi_hist>>

\* line 510: the worker finds the running flag cleared and leaves its loop
SpiLoopExit ==
    /\ spi_exec[SpiWorker].pc = "idle"
    /\ ~running
    /\ spi_exec' = [spi_exec EXCEPT ![SpiWorker].pc = "exited"]
    /\ UNCHANGED <<dmnVars, ctlVars, setVars, monVars, simulate, spi_queue, spi_unfinished,
                   spi_processing_lock, spi_hist>>

\* a queue that hands out the newest task: the task and what is left
QueueGetNewest(q) == <<q[Len(q)], SubSeq(q, 1, Len(q) - 1)>>

\* queue.Queue.get: the oldest task and what is left of the queue
QueueGet(q) == <<Head(q), Tail(q)>>

\* lines 513-524: the worker takes the oldest task and works out its delay
SpiQueueGet ==
    /\ spi_exec[SpiWorker].pc = "get"
    /\ spi_queue # <<>>
    /\ LET spi_task == QueueGet(spi_queue)[1]
       IN spi_exec' = [spi_exec EXCEPT ![SpiWorker] =
             [SpiIdle EXCEPT !.pc = "lock", !.alias = spi_task.alias,
                             !.todo = spi_task.spis,
                             !.lag_time = LagTimeOf(lag_config[spi_task.alias])]]
    /\ spi_queue' = QueueGet(spi_queue)[2]
    /\ spi_hist' = [spi_hist EXCEPT !.ntaken = @ + 1]
    /\ UNCHANGED <<dmnVars, ctlVars, setVars, monVars, simulate, spi_unfinished, spi_processing_lock>>

\* lines 513 and 566-568: no task within the timeout, back to the while test
SpiQueueTimeout ==
    /\ spi_exec[SpiWorker].pc = "get"
    /\ spi_queue = <<>>
    /\ spi_exec' = [spi_exec EXCEPT ![SpiWorker].pc = "idle"]
    /\ UNCHANGED <<dmnVars, ctlVars, setVars, monVars, simulate, spi_queue, spi_unfinished,
                   spi_processing_lock, spi_hist>>

\* line 527: with self.spi_processing_lock
SpiLockAcquire ==
    /\ spi_exec[SpiWorker].pc = "lock"
    /\ spi_processing_lock = None
    /\ spi_processing_lock' = SpiWorker
    /\ spi_exec' = [spi_exec EXCEPT ![SpiWorker].pc = "run"]
    /\ UNCHANGED <<dmnVars, ctlVars, setVars, monVars, simulate, spi_queue, spi_unfinished, spi_hist>>

\* a worker that gives up the rest of a task at the first entry whose pins
\* are not configured
SpiNextEntryStopAtUnmapped(e) ==
    /\ spi_exec[e].pc = "run"
    /\ spi_exec[e].todo # <<>>
    /\ LET x == spi_exec[e]
           entry == Head(x.todo)
           clk_pin == SpiPinGet(x.alias, "clk", entry.spi_num)
           data_pin == SpiPinGet(x.alias, "data", entry.spi_num)
           cs_pin == SpiPinGet(x.alias, "cs", entry.spi_num)
       IN IF Truthy(clk_pin) /\ Truthy(data_pin) /\ Truthy(cs_pin)
          THEN spi_exec' = [spi_exec EXCEPT ![e] =
                  [x EXCEPT !.pc = IF simulate[x.alias] THEN "sim" ELSE "cs_low",
                            !.todo = Tail(x.todo),
                            !.clk_pin = clk_pin, !.data_pin = data_pin, !.cs_pin = cs_pin,
                            !.data = entry.spi_data, !.cs_collection = entry.cs_collection,
                            !.i = 1, !.last_data_state = None, !.last_clk_state = None]]
          ELSE spi_exec' = [spi_exec EXCEPT ![e].todo = <<>>]
    /\ UNCHANGED <<dmnVars, ctlVars, setVars, monVars, simulate, spi_queue, spi_unfinished,
                   spi_processing_lock, spi_hist>>

\* lines 533-544 and 549-561: the next entry of the task; set_spi is entered
\* when its three pins are configured, otherwise the entry is passed over
SpiNextEntry(e) ==
    /\ spi_exec[e].pc = "run"
    /\ spi_exec[e].todo # <<>>
    /\ LET x == spi_exec[e]
           entry == Head(x.todo)
           clk_pin == SpiPinGet(x.alias, "clk", entry.spi_num)
           data_pin == SpiPinGet(x.alias, "data", entry.spi_num)
           cs_pin == SpiPinGet(x.alias, "cs", entry.spi_num)
       IN IF Truthy(clk_pin) /\ Truthy(data_pin) /\ Truthy(cs_pin)
          THEN spi_exec' = [spi_exec EXCEPT ![e] =
                  [x EXCEPT !.pc = IF simulate[x.alias] THEN "sim" ELSE "cs_low",
                            !.todo = Tail(x.todo),
                            !.clk_pin = clk_pin, !.data_pin = data_pin, !.cs_pin = cs_pin,
                            !.data = entry.spi_data, !.cs_collection = entry.cs_collection,
                            !.i = 1, !.last_data_state = None, !.last_clk_state = None]]
          ELSE spi_exec' = [spi_exec EXCEPT ![e].todo = Tail(x.todo)]
    /\ UNCHANGED <<dmnVars, ctlVars, setVars, monVars, simulate, spi_queue, spi_unfinished,
                   spi_processing_lock, spi_hist>>

\* lines 527 (lock released at the end of the with block) and 564: task_done
SpiTaskDone(e) ==
    /\ spi_exec[e].pc = "run"
    /\ spi_exec[e].todo = <<>>
    /\ spi_exec' = [spi_exec EXCEPT ![e] = SpiIdle]
    /\ spi_processing_lock' = IF spi_processing_lock = e THEN None ELSE spi_processing_lock
    /\ spi_unfinished' = IF e = SpiWorker THEN spi_unfinished - 1 ELSE spi_unfinished
    /\ spi_hist' = IF e = SpiWorker THEN [spi_hist EXCEPT !.done = @ \cup {spi_hist.ntaken}]
                   ELSE spi_hist
    /\ UNCHANGED <<dmnVars, ctlVars, setVars, monVars, simulate, spi_queue>>

(***************************************************************************)
(* USBGPIOController.set_spi                                               *)
(***************************************************************************)
\* lines 164-179: a simulated controller only sleeps
SpiSimulated(e) ==
    /\ spi_exec[e].pc = "sim"
    /\ spi_exec' = [spi_exec EXCEPT ![e].pc = "run"]
    /\ UNCHANGED <<dmnVars, ctlVars, setVars, monVars, simulate, spi_queue, spi_unfinished,
                   spi_processing_lock, spi_hist>>

\* lines 185-186: chip-select low
SpiCsLow(e) ==
    /\ spi_exec[e].pc = "cs_low"
    /\ SetGpioNow(spi_exec[e].alias, spi_exec[e].cs_pin, 0)
    /\ spi_exec' = [spi_exec EXCEPT ![e].pc = "bit"]
    /\ UNCHANGED <<dmnVars, setVars, monVars, simulate, spi_queue, spi_unfinished, spi_processing_lock, spi_hist>>

AtChar(e) == spi_exec[e].pc = "bit" /\ spi_exec[e].i <= Len(spi_exec[e].data)

CurChar(e) == spi_exec[e].data[spi_exec[e].i]

\* lines 199-200: a space is skipped
SpiSkipSpace(e) ==
    /\ AtChar(e)
    /\ CurChar(e) = " "
    /\ spi_exec' = [spi_exec EXCEPT ![e].i = @ + 1]
    /\ UNCHANGED <<dmnVars, ctlVars, setVars, monVars, simulate, spi_queue, spi_unfinished,
                   spi_processing_lock, spi_hist>>

\* lines 203-218: the data line is set when the bit differs from the last one
SpiDataBit(e) ==
    /\ AtChar(e)
    /\ CurChar(e) # " "
    /\ DigitValue(CurChar(e)) # None
    /\ LET x == spi_exec[e]
           bit == DigitValue(CurChar(e))
       IN IF x.last_data_state = None \/ x.last_data_state # bit
          THEN /\ SetGpioNow(x.alias, x.data_pin, bit)
               /\ spi_exec' = [spi_exec EXCEPT ![e].last_data_state = bit,
                                               ![e].pc = "clk_first"]
          ELSE /\ spi_exec' = [spi_exec EXCEPT ![e].pc = "clk_first"]
               /\ UNCHANGED ctlVars
    /\ UNCHANGED <<dmnVars, setVars, monVars, simulate, spi_queue, spi_unfinished, spi_processing_lock, spi_hist>>

\* line 203: int(bit) raises ValueError; the exception leaves set_spi and the
\* with block (the lock is released) and is caught at line 569, so task_done
\* is not called for the task
SpiBadChar(e) ==
    /\ AtChar(e)
    /\ CurChar(e) # " "
    /\ DigitValue(CurChar(e)) = None
    /\ spi_exec' = [spi_exec EXCEPT ![e] = SpiIdle]
    /\ spi_processing_lock' = IF spi_processing_lock = e THEN None ELSE spi_processing_lock
    /\ UNCHANGED <<dmnVars, ctlVars, setVars, monVars, simulate, spi_queue, spi_unfinished, spi_hist>>

\* a clock pulse that starts high whatever the edge mode
ClkFirstLevelHigh(cs_collection) == 1

\* the level of the first half of the clock pulse: high for "down", low otherwise
ClkFirstLevel(cs_collection) == IF cs_collection = "down" THEN 1 ELSE 0

\* lines 224-236 ("down") and 257-269 (otherwise)
SpiClkFirst(e) ==
    /\ spi_exec[e].pc = "clk_first"
    /\ LET x == spi_exec[e]
           level == ClkFirstLevel(x.cs_collection)
       IN IF x.last_clk_state = None \/ x.last_clk_state # level
          THEN /\ SetGpioNow(x.alias, x.clk_pin, level)
               /\ spi_exec' = [spi_exec EXCEPT ![e].last_clk_state = level,
                                               ![e].pc = "clk_second"]
          ELSE /\ spi_exec' = [spi_exec EXCEPT ![e].pc = "clk_second"]
               /\ UNCHANGED ctlVars
    /\ UNCHANGED <<dmnVars, setVars, monVars, simulate, spi_queue, spi_unfinished, spi_processing_lock, spi_hist>>

\* lines 241-253 ("down") and 274-286 (otherwise), then the next character
SpiClkSecond(e) ==
    /\ spi_exec[e].pc = "clk_second"
    /\ LET x == spi_exec[e]
           level == 1 - ClkFirstLevel(x.cs_collection)
       IN IF x.last_clk_state # level
          THEN /\ SetGpioNow(x.alias, x.clk_pin, level)
               /\ spi_exec' = [spi_exec EXCEPT ![e].last_clk_state = level,
                                               ![e].pc = "bit", ![e].i = @ + 1]
          ELSE /\ spi_exec' = [spi_exec EXCEPT ![e].pc = "bit", ![e].i = @ + 1]
               /\ UNCHANGED ctlVars
    /\ UNCHANGED <<dmnVars, setVars, monVars, simulate, spi_queue, spi_unfinished, spi_processing_lock, spi_hist>>

\* lines 298-299: after the last character, chip-select high; set_spi returns
SpiCsHigh(e) ==
    /\ spi_exec[e].pc = "bit"
    /\ spi_exec[e].i > Len(spi_exec[e].data)
    /\ SetGpioNow(spi_exec[e].alias, spi_exec[e].cs_pin, 1)
    /\ spi_exec' = [spi_exec EXCEPT ![e].pc = "run"]
    /\ UNCHANGED <<dmnVars, setVars, monVars, simulate, spi_queue, spi_unfinished, spi_processing_lock, spi_hist>>

(***************************************************************************)
(* Telemetry of a monitor ("geter") controller                             *)
(***************************************************************************)
\* the bytes one serial read can return (ser.read(ser.in_waiting)), as
\* sequences of characters
ChunkPriorAll == <<"C", "H", "1", ":", "1", "C", "H", "2", ":", "0", "C", "H", "3", ":", "1">>

ChunkSplitHead == <<"C", "H", "1", ":", "0", "C", "H", "2", ":">>

ChunkSplitTail == <<"1", "C", "H", "3", ":", "0">>

ChunkLow == <<"C", "H", "3", ":", "0">>

ChunkHigh == <<"C", "H", "3", ":", "1">>

ChunkLowHigh == <<"C", "H", "3", ":", "0", "C", "H", "3", ":", "1">>

\* the reads of the framing specification
FrameChunks ==
    {ChunkPriorAll, ChunkSplitHead, ChunkSplitTail, ChunkLow, ChunkHigh, ChunkLowHigh}

\* the reads of the telemetry specification: transitions of pin 3
MonChunks == {ChunkLow, ChunkHigh, ChunkLowHigh}

Digits == {"0", "1", "2", "3", "4", "5", "6", "7", "8", "9"}

Whitespace == {" ", "\t", "\n", "\r"}

DigitOf(ch) ==
    CASE ch = "0" -> 0 [] ch = "1" -> 1 [] ch = "2" -> 2 [] ch = "3" -> 3 [] ch = "4" -> 4
      [] ch = "5" -> 5 [] ch = "6" -> 6 [] ch = "7" -> 7 [] ch = "8" -> 8 [] ch = "9" -> 9

RECURSIVE Without(_, _)
\* str.replace(ch, '') for each ch of chars
Without(s, chars) ==
    IF s = <<>> THEN <<>>
    ELSE IF Head(s) \in chars THEN Without(Tail(s), chars)
         ELSE <<Head(s)>> \o Without(Tail(s), chars)

RECURSIVE LStrip(_)
LStrip(s) == IF s # <<>> /\ Head(s) \in Whitespace THEN LStrip(Tail(s)) ELSE s

RECURSIVE RStrip(_)
RStrip(s) ==
    IF s # <<>> /\ s[Len(s)] \in Whitespace THEN RStrip(SubSeq(s, 1, Len(s) - 1)) ELSE s

\* line 744: replace('\n', '').replace('\r', '').strip()
Clean(s) == RStrip(LStrip(Without(s, {"\n", "\r"})))

RECURSIVE DigitsEnd(_, _)
\* the index after the longest run of digits of s that starts at i
DigitsEnd(s, i) ==
    IF i <= Len(s) /\ s[i] \in Digits THEN DigitsEnd(s, i + 1) ELSE i

RECURSIVE DecValue(_, _, _, _)
\* int() of the digits s[i..j-1]
DecValue(s, i, j, acc) ==
    IF i >= j THEN acc ELSE DecValue(s, i + 1, j, 10 * acc + DigitOf(s[i]))

\* whether CH(\d+):([01]) matches s at index i
MatchesAt(s, i) ==
    /\ i + 1 <= Len(s) /\ s[i] = "C" /\ s[i + 1] = "H"
    /\ LET j == DigitsEnd(s, i + 2)
       IN /\ j > i + 2
          /\ j + 1 <= Len(s) /\ s[j] = ":" /\ s[j + 1] \in {"0", "1"}

\* a match at i: <<gpio_num, state, index after the match>>
MatchAt(s, i) ==
    LET j == DigitsEnd(s, i + 2)
    IN <<DecValue(s, i + 2, j, 0), DigitOf(s[j + 1]), j + 2>>

RECURSIVE FindAllFrom(_, _)
\* re.findall / re.finditer: the non-overlapping matches, left to right
FindAllFrom(s, i) ==
    IF i > Len(s) THEN <<>>
    ELSE IF MatchesAt(s, i)
         THEN <<MatchAt(s, i)>> \o FindAllFrom(s, MatchAt(s, i)[3])
         ELSE FindAllFrom(s, i + 1)

FindAll(s) == FindAllFrom(s, 1)

RECURSIVE GpioStatesFrom(_, _)
\* lines 754-758: gpio_states[gpio_num] = state for each match in turn
GpioStatesFrom(d, matches) ==
    IF matches = <<>> THEN d
    ELSE GpioStatesFrom(DictSet(d, Head(matches)[1], Head(matches)[2]), Tail(matches))

\* a buffer cleanup that forgets the unmatched tail
DropBuffer(buffer, matches) == <<>>

\* a buffer cleanup that keeps everything
RetainAll(buffer, matches) == buffer

\* lines 767-773: keep what follows the last complete match
RetainTail(buffer, matches) ==
    IF matches = <<>> THEN buffer
    ELSE SubSeq(buffer, matches[Len(matches)][3], Len(buffer))

\* an emit test that forgets to compare with the last state
EmitsChangeAlways(last_state, current_state) == last_state # None

\* lines 779 and 832: a change is reported when the pin was observed before
\* with another state
EmitsChange(last_state, current_state) ==
    last_state # None /\ last_state # current_state

RECURSIVE DictUpdate(_, _)
\* dict.update on a pin -> state map
DictUpdate(f, d) ==
    IF d = <<>> THEN f
    ELSE DictUpdate([f EXCEPT ![Head(d)[1]] = Head(d)[2]], Tail(d))

\* lines 782-795 and 833-846: the status_data of one change
StatusData(alias, default_bit, gpio_pin, current_state) ==
    [gpios |-> <<[alias |-> alias, default_bit |-> default_bit,
                  change_gpio |-> <<[gpio |-> gpio_pin, bit |-> current_state]>>]>>]

(***************************************************************************)
(* GPIOControlDaemon: the change buffer and its flush                      *)
(***************************************************************************)
DictGet(d, k) == (CHOOSE i \in 1..Len(d) : d[i][1] = k)

NoMessage == [type |-> "", id |-> 0, gpios |-> <<>>]

NoEvent == [gpio |-> 0, bit |-> None, prev |-> None]

RECURSIVE BufferAdd(_, _)
\* lines 862-868: every gpio_info goes to the list of its alias
BufferAdd(buffer, gpios) ==
    IF gpios = <<>> THEN buffer
    ELSE LET alias == Head(gpios).alias
             old == IF DictHas(buffer, alias) THEN buffer[DictGet(buffer, alias)][2] ELSE <<>>
         IN BufferAdd(DictSet(buffer, alias, Append(old, Head(gpios))), Tail(gpios))

RECURSIVE ExtendAll(_)
\* lines 886-887: the change lists of the buffered entries, joined in order
ExtendAll(changes) ==
    IF changes = <<>> THEN <<>>
    ELSE Head(changes).change_gpio \o ExtendAll(Tail(changes))

RECURSIVE Unmerged(_)
Unmerged(buffer) ==
    IF buffer = <<>> THEN <<>> ELSE Head(buffer)[2] \o Unmerged(Tail(buffer))

\* a flush that sends the buffered entries as they are, one per change
CombinedUnmerged(buffer) == Unmerged(buffer)

\* lines 877-889: one entry per alias, holding all its changes
Combined(buffer) ==
    [k \in 1..Len(buffer) |->
        [alias |-> buffer[k][1],
         default_bit |-> buffer[k][2][1].default_bit,
         change_gpio |-> ExtendAll(buffer[k][2])]]

\* no read, no flush, no change handed to the broadcaster yet
NoMonHist ==
    [nreads |-> 0, reads |-> <<>>, nflushes |-> 0,
     flushed |-> [a \in GeterAliases |-> 0],
     pending |-> [a \in GeterAliases |-> <<>>],
     taking |-> [a \in GeterAliases |-> <<>>],
     stream |-> <<>>, tokens |-> <<>>, pos |-> 0, extracted |-> <<>>]

\* an id taken before the buffer is found empty
FlushNothingTakingId ==
    /\ flush_call.pc = "idle"
    /\ gpio_change_buffer = <<>>
    /\ message_id_counter < MaxReads
    /\ message_id_counter' = message_id_counter + 1
    /\ UNCHANGED <<dmnVars, ctlVars, setVars, spiVars, data_buffer, gpio_last_states,
                   daemon_gpio_states, mon_loop, gpio_change_buffer, flush_call, sent,
                   last_event, mon_hist>>

\* lines 872-874: nothing is buffered, the flush returns
FlushNothing ==
    /\ flush_call.pc = "idle"
    /\ gpio_change_buffer = <<>>
    /\ UNCHANGED vars

\* a flush that merges the buffer and leaves it as it is
FlushCombineKeeping ==
    /\ flush_call.pc = "idle"
    /\ gpio_change_buffer # <<>>
    /\ flush_call' = [pc |-> "send", combined |-> Combined(gpio_change_buffer)]
    /\ mon_hist' = [mon_hist EXCEPT
          !.nflushes = @ + 1,
          !.pending = [a \in GeterAliases |-> <<>>],
          !.taking = mon_hist.pending]
    /\ UNCHANGED <<dmnVars, ctlVars, setVars, spiVars, data_buffer, gpio_last_states,
                   daemon_gpio_states, mon_loop, message_id_counter, sent, last_event,
                   gpio_change_buffer>>

\* lines 872-892: under the buffer lock, merge and clear
FlushCombine ==
    /\ flush_call.pc = "idle"
    /\ gpio_change_buffer # <<>>
    /\ flush_call' = [pc |-> "send", combined |-> Combined(gpio_change_buffer)]
    /\ gpio_change_buffer' = <<>>
    /\ mon_hist' = [mon_hist EXCEPT
          !.nflushes = @ + 1,
          !.pending = [a \in GeterAliases |-> <<>>],
          !.taking = mon_hist.pending,
          !.flushed = [a \in GeterAliases |->
               IF DictHas(gpio_change_buffer, a)
               THEN Len(gpio_change_buffer[DictGet(gpio_change_buffer, a)][2]) ELSE 0]]
    /\ UNCHANGED <<dmnVars, ctlVars, setVars, spiVars, data_buffer, gpio_last_states,
                   daemon_gpio_states, mon_loop, message_id_counter, sent, last_event>>

Registered == {status_clients[k] : k \in 1..Len(status_clients)}

\* lines 906-911: the registered subscribers whose send raises
Disconnected(clients) ==
    {clients[k] : k \in 1..Len(clients)} \cap {s \in Subs : sub[s].peer = "gone"}

\* a send loop that gives up at the first subscriber whose send raises
DeliveredUntilFailure(clients) ==
    {clients[k] : k \in {n \in 1..Len(clients) :
                           \A m \in 1..n : clients[m] \notin Disconnected(clients)}}

\* lines 906-911: the message goes to every registered subscriber whose send
\* does not raise
Delivered(clients) ==
    {clients[k] : k \in 1..Len(clients)} \ Disconnected(clients)

\* a registry that keeps the subscribers whose send raised
RemainingAll(clients) == clients

\* lines 913-920: the subscribers whose send raised leave the registry
Remaining(clients) ==
    SelectSeq(clients, LAMBDA s : s \notin Disconnected(clients))

\* lines 904-920, for the message with the given id: sent to each registered
\* subscriber; those whose send raised are removed and their sockets closed
SendToClients(id) ==
    /\ status_clients' = Remaining(status_clients)
    /\ sub' = [s \in Subs |->
                 IF s \in Delivered(status_clients) THEN [sub[s] EXCEPT !.last_id = id]
                 ELSE IF s \in Disconnected(status_clients) THEN [sub[s] EXCEPT !.chan = "closed"]
                 ELSE sub[s]]

\* lines 852-856 and 895-920: the next id is taken and the message is sent
FlushSend ==
    /\ flush_call.pc = "send"
    /\ status_clients_lock = "free"
    /\ message_id_counter' = message_id_counter + 1
    /\ sent' = [n |-> sent.n + 1,
                last |-> [type |-> "gpio_change", id |-> message_id_counter + 1,
                          gpios |-> flush_call.combined]]
    /\ flush_call' = [pc |-> "idle", combined |-> <<>>]
    /\ mon_hist' = [mon_hist EXCEPT !.taking = [a \in GeterAliases |-> <<>>]]
    /\ SendToClients(message_id_counter + 1)
    /\ UNCHANGED <<controllers, running, stop_call, loop_pc, status_sent, ctl_hist, mon_started, devVars, lockVars,
                   ctlVars, setVars, spiVars, data_buffer, gpio_last_states,
                   daemon_gpio_states, mon_loop, gpio_change_buffer, last_event>>

(***************************************************************************)
(* GPIOControlDaemon: the monitor listeners                                *)
(***************************************************************************)
PendingOf(alias) ==
    IF DictHas(gpio_change_buffer, alias)
    THEN gpio_change_buffer[DictGet(gpio_change_buffer, alias)][2] ELSE <<>>

\* what is recorded about a read when it happens, and the changes it gives
\* rise to (history)
ReadRecord(alias, chunk) ==
    [chunk |-> chunk, buf_before |-> data_buffer[alias],
     last_before |-> gpio_last_states[alias], evs |-> <<>>,
     pend_before |-> Len(PendingOf(alias)), flushes_before |-> mon_hist.nflushes]

\* the (gpio_num, state) pairs of the matches, in order
PinBits(matches) == [k \in 1..Len(matches) |-> <<matches[k][1], matches[k][2]>>]

\* the records of the latest two reads
LatestTwo(reads, r) ==
    IF reads = <<>> THEN <<r>> ELSE <<reads[Len(reads)], r>>

\* lines 736-773: one read of the serial port of a real monitor controller
ListenRead(alias, chunk) ==
    /\ ~simulate[alias]
    /\ ser_open[alias]
    /\ mon_loop[alias] = <<>>
    /\ chunk # <<>>
    /\ LET buffer == data_buffer[alias] \o Clean(chunk)
           matches == FindAll(buffer)
           gpio_states == GpioStatesFrom(<<>>, matches)
       IN /\ data_buffer' = [data_buffer EXCEPT ![alias] = RetainTail(buffer, matches)]
          /\ daemon_gpio_states' =
                [daemon_gpio_states EXCEPT ![alias] = DictUpdate(@, gpio_states)]
          /\ mon_loop' = [mon_loop EXCEPT ![alias] = gpio_states]
    /\ mon_hist' = [mon_hist EXCEPT !.nreads = @ + 1,
                                    !.reads = LatestTwo(@, ReadRecord(alias, chunk)),
                                    !.pos = IF mon_hist.stream = <<>> THEN @ ELSE @ + Len(chunk),
                                    !.extracted = IF mon_hist.stream = <<>> THEN @
                                                  ELSE @ \o PinBits(FindAll(data_buffer[alias] \o Clean(chunk)))]
    /\ UNCHANGED <<dmnVars, ctlVars, setVars, spiVars, gpio_last_states, gpio_change_buffer,
                   message_id_counter, flush_call, sent, last_event>>

\* lines 814-826: one round of a simulated monitor controller, every pin drawn
\* at random
SimulateRead(alias, states) ==
    /\ simulate[alias]
    /\ mon_loop[alias] = <<>>
    /\ LET gpio_states == [p \in 1..MaxSimPin |-> <<p, states[p]>>]
       IN /\ daemon_gpio_states' =
                [daemon_gpio_states EXCEPT ![alias] = DictUpdate(@, gpio_states)]
          /\ mon_loop' = [mon_loop EXCEPT ![alias] = gpio_states]
    /\ mon_hist' = [mon_hist EXCEPT !.nreads = @ + 1]
    /\ UNCHANGED <<dmnVars, ctlVars, setVars, spiVars, data_buffer, gpio_last_states,
                   gpio_change_buffer, message_id_counter, flush_call, sent, last_event>>

\* lines 776-799 and 829-850: one iteration of the loop over gpio_states, with
\* broadcast_gpio_status (lines 858-868) when the state changed
CheckPin(alias) ==
    /\ mon_loop[alias] # <<>>
    /\ LET gpio_pin == Head(mon_loop[alias])[1]
           current_state == Head(mon_loop[alias])[2]
           last_state == gpio_last_states[alias][gpio_pin]
       IN /\ IF EmitsChange(last_state, current_state)
             THEN /\ gpio_change_buffer' =
                        BufferAdd(gpio_change_buffer,
                                  StatusData(alias, DefaultBit[alias], gpio_pin,
                                             current_state).gpios)
                  /\ last_event' = [last_event EXCEPT ![alias] =
                        [gpio |-> gpio_pin, bit |-> current_state, prev |-> last_state]]
                  /\ mon_hist' =
                        LET ev == [gpio |-> gpio_pin, bit |-> current_state]
                        IN IF simulate[alias]
                           THEN [mon_hist EXCEPT !.pending[alias] = Append(@, ev)]
                           ELSE [mon_hist EXCEPT !.pending[alias] = Append(@, ev),
                                                 !.reads[Len(mon_hist.reads)].evs = Append(@, ev)]
             ELSE UNCHANGED <<gpio_change_buffer, last_event, mon_hist>>
          /\ gpio_last_states' = [gpio_last_states EXCEPT ![alias][gpio_pin] = current_state]
    /\ mon_loop' = [mon_loop EXCEPT ![alias] = Tail(@)]
    /\ UNCHANGED <<dmnVars, ctlVars, setVars, spiVars, data_buffer, daemon_gpio_states,
                   message_id_counter, flush_call, sent>>

(***************************************************************************)
(* GPIOControlDaemon.handle_control_command: the routing of a datagram     *)
(***************************************************************************)
\* a datagram: bytes that json.loads turns into a command, or bytes it rejects
Datagram(command) == [json |-> TRUE, command |-> command]

NotJson == [json |-> FALSE, command |-> <<>>]

SetCommand(alias, kind, gpios, values) ==
    [alias |-> alias, mode |-> "set", kind |-> kind, gpios |-> gpios, values |-> values]

SpiCommand(alias, mode, spis) == [alias |-> alias, mode |-> mode, spis |-> spis]

\* datagrams the handler drops: not JSON, an alias that is not configured, a
\* batch whose arrays differ in length (lines 442-444, 464-466, 503-504)
MalformedDatagrams ==
    { NotJson,
      Datagram(SetCommand("nobody", "single", <<5>>, <<1>>)),
      Datagram(SetCommand(SetAlias, "batch", <<5, 6>>, <<1>>)) }

\* commands whose variant does not fit the mode of the alias they name
MismatchedDatagrams ==
    { Datagram(SetCommand("geter", "single", <<5>>, <<1>>)),
      Datagram(SetCommand("spi", "single", <<3>>, <<1>>)),
      Datagram(SpiCommand(SetAlias, "spi_multi", <<SpiEntry(1, <<"1">>, "down")>>)) }

\* commands that fit the alias they name
FittingDatagrams ==
    { Datagram(SetCommand(SetAlias, "batch", <<5, 6>>, <<0, 1>>)),
      Datagram(SpiCommand("spi", "spi", <<SpiEntry(1, <<"1">>, "down")>>)) }

CtlDatagrams == MalformedDatagrams \cup MismatchedDatagrams \cup FittingDatagrams

\* commands handled so far that were not dropped
NumAccepted == set_hist.ncalls + spi_hist.ncmds

\* the handler returns having done nothing (lines 444, 466, 502, 503-506)
CommandDropped(data) ==
    /\ ctl_hist' = [ctl_hist EXCEPT !.rejected = @ + 1, !.dropped = @ \cup {data},
                                    !.after_reject = NumAccepted]
    /\ UNCHANGED <<ioVars, ctlVars, setVars, spiVars, monVars, controllers, running, stop_call,
                   loop_pc, status_sent>>

\* lines 431-506: a command thread handles one datagram
HandleControlCommand(data) ==
    IF ~data.json THEN CommandDropped(data)
    ELSE LET command == data.command
         IN IF command.alias \notin controllers THEN CommandDropped(data)
            ELSE IF command.mode = "set"
                 THEN IF RoutesSet(command)
                      THEN \E t \in Threads : HandleSetCommand(t, command)
                      ELSE CommandDropped(data)
                 ELSE IF RoutesSpi(command)
                      THEN HandleSpiCommand(command)
                      ELSE CommandDropped(data)

(***************************************************************************)
(* GPIOControlDaemon.__init__: the controllers are opened one by one       *)
(***************************************************************************)
\* config.sections(), daemon_config left out
ConfigSections == <<"sender", "spi", "spi2", "geter", "geter2">>

\* the sections still to be processed
SectionsLeft == SelectSeq(ConfigSections, LAMBDA a : a \notin controllers)

\* an initialisation that registers a controller whose device did not open
\* without switching it to simulation
InitControllerNoFallback(alias, opens) ==
    /\ ~running /\ stop_call.pc = "idle"
    /\ SectionsLeft # <<>> /\ alias = Head(SectionsLeft)
    /\ controllers' = controllers \cup {alias}
    /\ ctl_hist' = [ctl_hist EXCEPT !.open_failed = IF opens THEN @ ELSE @ \cup {alias}]
    /\ ser_open' = [ser_open EXCEPT ![alias] = opens]
    /\ UNCHANGED <<status_clients, sub, mon_started, gpio_reporting_active, enable_frames,
                   io_hist, sockets, lag_config, lockVars, ctlVars, setVars, spiVars, monVars, running,
                   stop_call, loop_pc, status_sent>>

\* lines 338-396, one section: the controller is created on its device; when
\* serial.Serial raises (connect, lines 43-50) it is created again simulated;
\* either way the alias is registered
InitController(alias, opens) ==
    /\ ~running /\ stop_call.pc = "idle"
    /\ SectionsLeft # <<>> /\ alias = Head(SectionsLeft)
    /\ controllers' = controllers \cup {alias}
    /\ simulate' = [simulate EXCEPT ![alias] = ~opens]
    /\ ctl_hist' = [ctl_hist EXCEPT !.open_failed = IF opens THEN @ ELSE @ \cup {alias}]
    /\ ser_open' = [ser_open EXCEPT ![alias] = opens]
    /\ UNCHANGED <<status_clients, sub, mon_started, gpio_reporting_active, enable_frames,
                   io_hist, sockets, lag_config, lockVars, ctlVars, setVars, monVars, spi_queue,
                   spi_unfinished, spi_processing_lock, spi_exec, spi_hist, running, stop_call,
                   loop_pc, status_sent>>

\* lines 398-427: the sockets are created and the running flag is set
InitFinish ==
    /\ ~running /\ stop_call.pc = "idle"
    /\ SectionsLeft = <<>>
    /\ running' = TRUE
    /\ sockets' = SocketsOpen
    /\ UNCHANGED <<status_clients, sub, mon_started, gpio_reporting_active, ser_open,
                   enable_frames, io_hist, lag_config, lockVars, ctlVars, setVars, spiVars, monVars, controllers,
                   stop_call, loop_pc, status_sent, ctl_hist>>

(***************************************************************************)
(* GPIOControlDaemon.get_current_gpio_status and the query_status request  *)
(***************************************************************************)
\* lines 936-940: the states kept for the alias; when there are none, the
\* last states of the change detection
StatesFor(alias) ==
    IF \A p \in MonPins : daemon_gpio_states[alias][p] = None
    THEN gpio_last_states[alias] ELSE daemon_gpio_states[alias]

\* lines 931-946: one entry per registered controller of mode "geter"
StatusEntries ==
    LET geters == SelectSeq(ConfigSections,
                            LAMBDA a : a \in controllers /\ ControllerMode[a] = "geter")
    IN [k \in 1..Len(geters) |->
          [alias |-> geters[k], default_bit |-> DefaultBit[geters[k]],
           current_gpio_states |-> StatesFor(geters[k])]]

\* lines 924-928: the message has a type, a timestamp and the entries
GetCurrentGpioStatus == [type |-> "current_status", gpios |-> StatusEntries]

\* handle_status_client lines 609-612: a subscriber asks, the status is sent
QueryStatus ==
    /\ running
    /\ mon_started
    /\ status_sent' = <<GetCurrentGpioStatus>>
    /\ ctl_hist' = [ctl_hist EXCEPT !.query_at = mon_hist.nreads]
    /\ UNCHANGED <<ioVars, ctlVars, setVars, spiVars, monVars, controllers, running, stop_call, loop_pc>>

(***************************************************************************)
(* GPIOControlDaemon.handle_status_client and the subscriber registry      *)
(***************************************************************************)
\* the bytes of one message of a subscriber, as the two pieces a stream
\* socket may deliver apart
Message(type) == <<[type |-> type, part |-> 1], [type |-> type, part |-> 2]>>

\* lines 599-616: json.loads of what one recv returned gives a message only
\* when the data is exactly one whole message; anything else raises
\* JSONDecodeError, which is passed over
JsonLoads(data) ==
    IF Len(data) = 2 /\ data[1].part = 1 /\ data[2].part = 2 THEN data[1].type
    ELSE "JSONDecodeError"

\* start_status_server lines 954-960: a connection is accepted and its thread
\* started; the listening socket is open until stop() closes it
SubAccept(s) ==
    /\ sub[s].pc = "none"
    /\ stop_call.pc \in {"idle", "join"}
    /\ sub' = [sub EXCEPT ![s] = [NoSub EXCEPT !.pc = "accepted", !.chan = "open", !.peer = "up"]]
    /\ UNCHANGED <<ctlVars, setVars, spiVars, monVars, controllers, running, stop_call,
                   loop_pc, status_sent, ctl_hist, status_clients, mon_started, devVars, lockVars>>

\* lines 584-585: the socket is appended to the registry
SubRegister(s) ==
    /\ sub[s].pc = "accepted"
    /\ status_clients_lock = "free"
    /\ status_clients' = Append(status_clients, s)
    /\ sub' = [sub EXCEPT ![s].pc = "loop"]
    /\ UNCHANGED <<ctlVars, setVars, spiVars, monVars, controllers, running, stop_call,
                   loop_pc, status_sent, ctl_hist, mon_started, devVars, lockVars>>

\* line 589: while self.running
SubLoopTest(s) ==
    /\ sub[s].pc = "loop"
    /\ sub' = [sub EXCEPT ![s].pc = IF running THEN "recv" ELSE "finally"]
    /\ UNCHANGED <<ctlVars, setVars, spiVars, monVars, controllers, running, stop_call,
                   loop_pc, status_sent, ctl_hist, status_clients, mon_started, devVars, lockVars>>

\* the subscriber writes an ack or a query_status message
SubWrite(s, type) ==
    /\ sub[s].peer = "up"
    /\ sub' = [sub EXCEPT ![s].stream = @ \o Message(type),
                          ![s].nwrite = @ + 1,
                          ![s].nquery = IF type = "query_status" THEN @ + 1 ELSE @]
    /\ UNCHANGED <<ctlVars, setVars, spiVars, monVars, controllers, running, stop_call,
                   loop_pc, status_sent, ctl_hist, status_clients, mon_started, devVars, lockVars>>

\* the subscriber closes its end
SubPeerClose(s) ==
    /\ sub[s].peer = "up"
    /\ sub' = [sub EXCEPT ![s].peer = "gone"]
    /\ UNCHANGED <<ctlVars, setVars, spiVars, monVars, controllers, running, stop_call,
                   loop_pc, status_sent, ctl_hist, status_clients, mon_started, devVars, lockVars>>

\* lines 593-616 and 621-624: recv returns the first k pieces written; a
\* query_status is answered with get_current_gpio_status (an exception of the
\* call or of the send ends the loop), an ack or undecodable data is passed over
SubRecv(s, k) ==
    /\ sub[s].pc = "recv"
    /\ sub[s].chan = "open"
    /\ k \in 1..Len(sub[s].stream)
    /\ LET client_msg == JsonLoads(SubSeq(sub[s].stream, 1, k))
           rest == SubSeq(sub[s].stream, k + 1, Len(sub[s].stream))
       IN IF client_msg = "query_status"
          THEN IF mon_started /\ sub[s].peer = "up"
               THEN /\ sub' = [sub EXCEPT ![s].stream = rest, ![s].nstatus = @ + 1,
                                          ![s].pc = "loop"]
                    /\ status_sent' = <<GetCurrentGpioStatus>>
               ELSE /\ sub' = [sub EXCEPT ![s].stream = rest, ![s].pc = "finally"]
                    /\ UNCHANGED status_sent
          ELSE /\ sub' = [sub EXCEPT ![s].stream = rest, ![s].pc = "loop"]
               /\ UNCHANGED status_sent
    /\ UNCHANGED <<ctlVars, setVars, spiVars, monVars, controllers, running, stop_call,
                   loop_pc, ctl_hist, status_clients, mon_started, devVars, lockVars>>

\* lines 594-596: recv returns no bytes, the peer has closed
SubRecvZero(s) ==
    /\ sub[s].pc = "recv"
    /\ sub[s].chan = "open"
    /\ sub[s].stream = <<>>
    /\ sub[s].peer = "gone"
    /\ sub' = [sub EXCEPT ![s].pc = "finally"]
    /\ UNCHANGED <<ctlVars, setVars, spiVars, monVars, controllers, running, stop_call,
                   loop_pc, status_sent, ctl_hist, status_clients, mon_started, devVars, lockVars>>

\* lines 618-620: socket.timeout, back to the while test
SubRecvTimeout(s) ==
    /\ sub[s].pc = "recv"
    /\ sub[s].chan = "open"
    /\ sub[s].stream = <<>>
    /\ sub[s].peer = "up"
    /\ sub' = [sub EXCEPT ![s].pc = "loop"]
    /\ UNCHANGED <<ctlVars, setVars, spiVars, monVars, controllers, running, stop_call,
                   loop_pc, status_sent, ctl_hist, status_clients, mon_started, devVars, lockVars>>

\* lines 621-624: recv on a socket that the flush loop or stop() has closed raises
SubRecvError(s) ==
    /\ sub[s].pc = "recv"
    /\ sub[s].chan = "closed"
    /\ sub' = [sub EXCEPT ![s].pc = "finally"]
    /\ UNCHANGED <<ctlVars, setVars, spiVars, monVars, controllers, running, stop_call,
                   loop_pc, status_sent, ctl_hist, status_clients, mon_started, devVars, lockVars>>

\* lines 628-631: under the registry lock, the socket is removed if it is there
SubFinally(s) ==
    /\ sub[s].pc = "finally"
    /\ status_clients_lock = "free"
    /\ status_clients' = SelectSeq(status_clients, LAMBDA c : c # s)
    /\ sub' = [sub EXCEPT ![s].pc = "close"]
    /\ UNCHANGED <<ctlVars, setVars, spiVars, monVars, controllers, running, stop_call,
                   loop_pc, status_sent, ctl_hist, mon_started, devVars, lockVars>>

\* lines 632-636: the socket is closed and the thread ends
SubClose(s) ==
    /\ sub[s].pc = "close"
    /\ sub' = [sub EXCEPT ![s].chan = "closed", ![s].pc = "done"]
    /\ UNCHANGED <<ctlVars, setVars, spiVars, monVars, controllers, running, stop_call,
                   loop_pc, status_sent, ctl_hist, status_clients, mon_started, devVars, lockVars>>

(***************************************************************************)
(* The sends on subscriber sockets, one step per lock operation and per    *)
(* entry into and return from socket.send                                  *)
(***************************************************************************)
\* a broadcast that leaves out the subscriber registered first
SendLockSkipsFirst ==
    /\ flush_call.pc = "send"
    /\ status_clients_lock = "free"
    /\ message_id_counter' = message_id_counter + 1
    /\ status_clients_lock' = "flush"
    /\ send_call' = [send_call EXCEPT !.id = message_id_counter + 1,
                                      !.todo = IF status_clients = <<>> THEN <<>>
                                               ELSE Tail(status_clients),
                                      !.disconnected = {}]
    /\ flush_call' = [flush_call EXCEPT !.pc = "locked"]
    /\ UNCHANGED <<controllers, running, stop_call, loop_pc, status_sent, ctl_hist,
                   status_clients, sub, mon_started, devVars, ctlVars, setVars, spiVars,
                   data_buffer, gpio_last_states, daemon_gpio_states, mon_loop,
                   gpio_change_buffer, sent, last_event, mon_hist>>

\* lines 895-896 and 904-905: the id is taken, then the registry lock; the
\* loop is about to go through the registry as it is now
SendLock ==
    /\ flush_call.pc = "send"
    /\ status_clients_lock = "free"
    /\ message_id_counter' = message_id_counter + 1
    /\ status_clients_lock' = "flush"
    /\ send_call' = [send_call EXCEPT !.id = message_id_counter + 1, !.todo = status_clients,
                                      !.disconnected = {}]
    /\ flush_call' = [flush_call EXCEPT !.pc = "locked"]
    /\ UNCHANGED <<controllers, running, stop_call, loop_pc, status_sent, ctl_hist,
                   status_clients, sub, mon_started, devVars, ctlVars, setVars, spiVars,
                   data_buffer, gpio_last_states, daemon_gpio_states, mon_loop,
                   gpio_change_buffer, sent, last_event, mon_hist>>

\* line 908: the flush loop enters client.send for the next client
SendBegin ==
    /\ flush_call.pc = "locked"
    /\ send_call.todo # <<>>
    /\ "flush" \notin send_call.busy[Head(send_call.todo)]
    /\ send_call' = [send_call EXCEPT !.busy[Head(send_call.todo)] = @ \cup {"flush"}]
    /\ UNCHANGED <<ctlVars, setVars, spiVars, monVars, controllers, running, stop_call,
                   loop_pc, status_sent, ctl_hist, status_clients, sub, mon_started, devVars,
                   status_clients_lock>>

\* lines 908-911: client.send returns, or raises and the client is noted
SendEnd ==
    /\ flush_call.pc = "locked"
    /\ send_call.todo # <<>>
    /\ "flush" \in send_call.busy[Head(send_call.todo)]
    /\ LET client == Head(send_call.todo)
           raises == sub[client].peer = "gone"
       IN /\ send_call' = [send_call EXCEPT
                 !.busy[client] = @ \ {"flush"},
                 !.todo = Tail(@),
                 !.disconnected = IF raises THEN @ \cup {client} ELSE @]
          /\ sub' = IF raises THEN sub
                    ELSE [sub EXCEPT ![client].last_id = send_call.id]
    /\ UNCHANGED <<ctlVars, setVars, spiVars, monVars, controllers, running, stop_call,
                   loop_pc, status_sent, ctl_hist, status_clients, mon_started, devVars,
                   status_clients_lock>>

\* lines 913-920: the clients whose send raised are removed and closed, the
\* lock is released and send_buffered_gpio_status returns
SendUnlock ==
    /\ flush_call.pc = "locked"
    /\ send_call.todo = <<>>
    /\ status_clients' = SelectSeq(status_clients, LAMBDA c : c \notin send_call.disconnected)
    /\ sub' = [s \in Subs |-> IF s \in send_call.disconnected
                              THEN [sub[s] EXCEPT !.chan = "closed"] ELSE sub[s]]
    /\ status_clients_lock' = "free"
    /\ send_call' = [send_call EXCEPT !.disconnected = {}]
    /\ sent' = [n |-> sent.n + 1,
                last |-> [type |-> "gpio_change", id |-> send_call.id,
                          gpios |-> flush_call.combined]]
    /\ flush_call' = [pc |-> "idle", combined |-> <<>>]
    /\ mon_hist' = [mon_hist EXCEPT !.taking = [a \in GeterAliases |-> <<>>]]
    /\ UNCHANGED <<controllers, running, stop_call, loop_pc, status_sent, ctl_hist,
                   mon_started, devVars, ctlVars, setVars, spiVars, data_buffer,
                   gpio_last_states, daemon_gpio_states, mon_loop, gpio_change_buffer,
                   message_id_counter, last_event>>

\* lines 593-612: recv returned one whole query_status message; the status is
\* built and the subscriber's thread enters client_socket.send, holding no lock
SubReplyBegin(s) ==
    /\ sub[s].pc = "recv"
    /\ sub[s].chan = "open"
    /\ mon_started
    /\ Len(sub[s].stream) >= 2
    /\ JsonLoads(SubSeq(sub[s].stream, 1, 2)) = "query_status"
    /\ sub' = [sub EXCEPT ![s].stream = SubSeq(@, 3, Len(@)), ![s].pc = "reply"]
    /\ status_sent' = <<GetCurrentGpioStatus>>
    /\ send_call' = [send_call EXCEPT !.busy[s] = @ \cup {"reply"}]
    /\ UNCHANGED <<ctlVars, setVars, spiVars, monVars, controllers, running, stop_call,
                   loop_pc, ctl_hist, status_clients, mon_started, devVars,
                   status_clients_lock>>

\* lines 612 and 621-624: the send of the reply returns, or raises and ends the loop
SubReplyEnd(s) ==
    /\ sub[s].pc = "reply"
    /\ send_call' = [send_call EXCEPT !.busy[s] = @ \ {"reply"}]
    /\ sub' = IF sub[s].peer = "up" /\ sub[s].chan = "open"
              THEN [sub EXCEPT ![s].nstatus = @ + 1, ![s].pc = "loop"]
              ELSE [sub EXCEPT ![s].pc = "finally"]
    /\ UNCHANGED <<ctlVars, setVars, spiVars, monVars, controllers, running, stop_call,
                   loop_pc, status_sent, ctl_hist, status_clients, mon_started, devVars,
                   status_clients_lock>>

\* run line 977 and start_gpio_monitoring lines 641-652: the monitoring thread
\* creates the default and last states
StartGpioMonitoring ==
    /\ ~mon_started
    /\ mon_started' = TRUE
    /\ enable_frames' = [a \in Aliases |->
                            IF a \in GeterAliases /\ ~simulate[a] /\ ser_open[a]
                            THEN Append(enable_frames[a], EnableFrame(DefaultBit[a]))
                            ELSE enable_frames[a]]
    /\ gpio_reporting_active' = {a \in GeterAliases : simulate[a] \/ ser_open[a]}
    /\ UNCHANGED <<ctlVars, setVars, spiVars, monVars, controllers, running, stop_call,
                   loop_pc, status_sent, ctl_hist, status_clients, sub, ser_open, io_hist,
                   sockets, lag_config, lockVars>>

\* lines 800-808: an exception in the body of the listener's loop (the device
\* fails, or its handle was closed) is answered with controller.reconnect();
\* when the device opens again the alias is discarded from
\* gpio_reporting_active and the loop goes back to its while test, otherwise
\* the exception of reconnect is passed over
ListenIOError(alias, opens) ==
    /\ mon_started
    /\ ~simulate[alias]
    /\ loop_pc["listener"] = "wait"
    /\ mon_loop[alias] = <<>>
    /\ ser_open' = [ser_open EXCEPT ![alias] = opens]
    /\ gpio_reporting_active' = IF opens THEN gpio_reporting_active \ {alias}
                                         ELSE gpio_reporting_active
    /\ io_hist' = IF opens
                  THEN [io_hist EXCEPT ![alias] =
                           [reconnected |-> TRUE, mark |-> Len(enable_frames[alias])]]
                  ELSE io_hist
    /\ loop_pc' = [loop_pc EXCEPT !["listener"] = "check"]
    /\ UNCHANGED <<ctlVars, setVars, spiVars, monVars, controllers, running, stop_call,
                   status_sent, ctl_hist, status_clients, sub, mon_started, enable_frames,
                   sockets, lag_config, lockVars>>

(***************************************************************************)
(* The state after GPIOControlDaemon.__init__, by group of variables       *)
(***************************************************************************)
\* the long-lived loops other than the SPI worker
Loops == {"ingress", "listener", "simulate", "flush", "accept", "subscriber"}

StopIdle == [pc |-> "idle", put_at_stop |-> 0, taken_at_stop |-> 0]

NoCtl == [rejected |-> 0, dropped |-> {}, after_reject |-> 0, open_failed |-> {}, query_at |-> 0]

\* every configured alias registered, the running flag set (line 427), no
\* stop() call, every loop at its while test
InitDmnWith(cfg) ==
    /\ controllers = Aliases
    /\ running = TRUE
    /\ stop_call = StopIdle
    /\ loop_pc = [l \in Loops |-> "check"]
    /\ status_sent = <<>>
    /\ ctl_hist = NoCtl
    /\ status_clients = <<>>
    /\ sub = [s \in Subs |-> NoSub]
    /\ mon_started = TRUE
    /\ gpio_reporting_active = GeterAliases
    /\ ser_open = [a \in Aliases |-> ~simulate[a]]
    /\ enable_frames = [a \in Aliases |-> IF a \in GeterAliases /\ ~simulate[a]
                                           THEN <<EnableFrame(DefaultBit[a])>> ELSE <<>>]
    /\ io_hist = [a \in Aliases |-> NoIo]
    /\ sockets = SocketsOpen
    /\ lag_config = cfg
    /\ status_clients_lock = "free"
    /\ send_call = NoSend

InitDmnVars == InitDmnWith([a \in SpiAliases |-> LagMissing])

(***************************************************************************)
(* Specification of the pin-set path                                       *)
(***************************************************************************)
Init ==
    /\ current_gpio_states = [a \in Aliases |-> [p \in Pins |-> None]]
    /\ frames = [a \in Aliases |-> <<>>]
    /\ set_call = [t \in Threads |-> IdleCall]
    /\ set_obs = [t \in Threads |-> NoObs]
    /\ set_hist = [ncalls |-> 0, first |-> <<>>, allsame |-> TRUE, overlap |-> FALSE, failed |-> FALSE, ndiff |-> 0]
    /\ simulate = [a \in Aliases |-> FALSE]
    /\ spi_queue = <<>>
    /\ spi_unfinished = 0
    /\ spi_processing_lock = None
    /\ spi_exec = [e \in Executors |-> SpiIdle]
    /\ spi_hist = NoSpiHist
    /\ data_buffer = [a \in GeterAliases |-> <<>>]
    /\ gpio_last_states = [a \in GeterAliases |-> [p \in MonPins |-> None]]
    /\ daemon_gpio_states = [a \in GeterAliases |-> [p \in MonPins |-> None]]
    /\ mon_loop = [a \in GeterAliases |-> <<>>]
    /\ gpio_change_buffer = <<>>
    /\ message_id_counter = 0
    /\ flush_call = [pc |-> "idle", combined |-> <<>>]
    /\ sent = [n |-> 0, last |-> NoMessage]
    /\ last_event = [a \in GeterAliases |-> NoEvent]
    /\ mon_hist = NoMonHist
    /\ InitDmnVars

Next ==
    \/ \E t \in Threads, cmd \in SetCmds : HandleSetCommand(t, cmd)
    \/ \E t \in Threads : SetGpioGet(t)
    \/ \E t \in Threads : SetGpioStore(t)
    \/ \E t \in Threads : SetGpioReturnUnchanged(t)
    \/ \E t \in Threads : SetGpioSendOk(t)
    \/ \E t \in Threads : SetGpioSendFail(t)

Spec == Init /\ [][Next]_vars

(***************************************************************************)
(* Specification of the command routing: datagrams of every kind, and the  *)
(* set_gpio calls they lead to                                             *)
(***************************************************************************)
\* control datagrams received in one run
MaxCtl == 4

NumHandled == ctl_hist.rejected + NumAccepted

NextCtl ==
    \/ \E data \in CtlDatagrams : NumHandled < MaxCtl /\ HandleControlCommand(data)
    \/ \E t \in Threads : SetGpioGet(t)
    \/ \E t \in Threads : SetGpioStore(t)
    \/ \E t \in Threads : SetGpioReturnUnchanged(t)
    \/ \E t \in Threads : SetGpioSendOk(t)
    \/ \E t \in Threads : SetGpioSendFail(t)

SpecCtl == Init /\ [][NextCtl]_vars

(***************************************************************************)
(* Set commands for one pin whose values alternate, so that the value of   *)
(* the command received last is known from the number received             *)
(***************************************************************************)
\* set commands received in one run
MaxOrderCalls == 3

\* the pin the commands set: the lowest of the pins the set commands name
OrderPin == CHOOSE p \in SetPins : \A q \in SetPins : p <= q

\* the value the k-th datagram carries: any value for the first, then the
\* other value, and so on in turn
OrderValue(k) ==
    IF set_hist.ncalls = 0 THEN 0
    ELSE (set_hist.first[1][2] + k - 1) % 2

\* the datagram that can be received next
OrderCmds ==
    {c \in SetSingleCmds :
        /\ c.gpios = <<OrderPin>>
        /\ set_hist.ncalls > 0 => c.values = <<OrderValue(set_hist.ncalls + 1)>>}

NextOrder ==
    \/ \E t \in Threads, cmd \in OrderCmds :
          set_hist.ncalls < MaxOrderCalls /\ HandleSetCommand(t, cmd)
    \/ \E t \in Threads : SetGpioGet(t)
    \/ \E t \in Threads : SetGpioStore(t)
    \/ \E t \in Threads : SetGpioReturnUnchanged(t)
    \/ \E t \in Threads : SetGpioSendOk(t)

SpecOrder == Init /\ [][NextOrder]_vars

(***************************************************************************)
(* send_command on a device whose handle closes and reopens                *)
(***************************************************************************)
\* set commands received in one run
MaxSendCalls == 2

NextSend ==
    \/ \E t \in Threads, cmd \in SetCmds :
          set_hist.ncalls < MaxSendCalls /\ HandleSetCommand(t, cmd)
    \/ \E t \in Threads : SetGpioGet(t)
    \/ \E t \in Threads : SetGpioStore(t)
    \/ \E t \in Threads : SetGpioReturnUnchanged(t)
    \/ \E t \in Threads : \E reopens, writes, reopens_after \in BOOLEAN :
          SetGpioSend(t, reopens, writes, reopens_after)

SpecSend == Init /\ [][NextSend]_vars

(***************************************************************************)
(* Specification of the start-up: the controllers are opened (at most      *)
(* MaxOpenFailures devices fail to open), then the daemon serves set       *)
(* commands, telemetry and status queries                                  *)
(***************************************************************************)
\* devices that fail to open in one run
MaxOpenFailures == 1

\* set commands received in one run of the start-up specification
MaxStartCmds == 2

\* reads of the monitor listeners in one run of the start-up specification
MaxStartReads == 1

\* reads of the monitor listeners in one run of the flush specification
MaxFlushReads == 4

\* messages a subscriber writes in one run of the query specification
MaxSubWrites == 2

\* reads of the monitor in one run of the subscriber specification
MaxSubReads == 3

\* longest bitstring of the single SPI transfer whose writes are compared with the reference trace
MaxBits == 3

StartDatagrams == {Datagram(SetCommand(SetAlias, "single", <<5>>, <<1>>))}

StartChunks == {ChunkHigh}

InitStart ==
    /\ current_gpio_states = [a \in Aliases |-> [p \in Pins |-> None]]
    /\ frames = [a \in Aliases |-> <<>>]
    /\ set_call = [t \in Threads |-> IdleCall]
    /\ set_obs = [t \in Threads |-> NoObs]
    /\ set_hist = [ncalls |-> 0, first |-> <<>>, allsame |-> TRUE, overlap |-> FALSE, failed |-> FALSE, ndiff |-> 0]
    /\ simulate = [a \in Aliases |-> FALSE]
    /\ spi_queue = <<>>
    /\ spi_unfinished = 0
    /\ spi_processing_lock = None
    /\ spi_exec = [e \in Executors |-> SpiIdle]
    /\ spi_hist = NoSpiHist
    /\ data_buffer = [a \in GeterAliases |-> <<>>]
    /\ gpio_last_states = [a \in GeterAliases |-> [p \in MonPins |-> None]]
    /\ daemon_gpio_states = [a \in GeterAliases |-> [p \in MonPins |-> None]]
    /\ mon_loop = [a \in GeterAliases |-> <<>>]
    /\ gpio_change_buffer = <<>>
    /\ message_id_counter = 0
    /\ flush_call = [pc |-> "idle", combined |-> <<>>]
    /\ sent = [n |-> 0, last |-> NoMessage]
    /\ last_event = [a \in GeterAliases |-> NoEvent]
    /\ mon_hist = NoMonHist
    /\ controllers = {}
    /\ running = FALSE
    /\ stop_call = StopIdle
    /\ loop_pc = [l \in Loops |-> "check"]
    /\ status_sent = <<>>
    /\ ctl_hist = NoCtl
    /\ status_clients = <<>>
    /\ sub = [s \in Subs |-> NoSub]
    /\ mon_started = TRUE
    /\ gpio_reporting_active = {}
    /\ ser_open = [a \in Aliases |-> FALSE]
    /\ enable_frames = [a \in Aliases |-> <<>>]
    /\ io_hist = [a \in Aliases |-> NoIo]
    /\ sockets = SocketsNone
    /\ lag_config = [a \in SpiAliases |-> LagMissing]
    /\ status_clients_lock = "free"
    /\ send_call = NoSend

NextStart ==
    \/ \E alias \in Aliases, opens \in BOOLEAN :
          /\ opens \/ Cardinality(ctl_hist.open_failed) < MaxOpenFailures
          /\ InitController(alias, opens)
    \/ InitFinish
    \/ \E data \in StartDatagrams :
          running /\ NumHandled < MaxStartCmds /\ HandleControlCommand(data)
    \/ \E t \in Threads : SetGpioGet(t)
    \/ \E t \in Threads : SetGpioStore(t)
    \/ \E t \in Threads : SetGpioReturnUnchanged(t)
    \/ \E t \in Threads : SetGpioSendOk(t)
    \/ \E t \in Threads : SetGpioSendSim(t)
    \/ \E alias \in GeterAliases, chunk \in StartChunks :
          running /\ mon_hist.nreads < MaxStartReads /\ ListenRead(alias, chunk)
    \/ \E alias \in GeterAliases, states \in [1..MaxSimPin -> Bits] :
          running /\ mon_hist.nreads < MaxStartReads /\ SimulateRead(alias, states)
    \/ \E alias \in GeterAliases : CheckPin(alias)
    \/ QueryStatus

SpecStart == InitStart /\ [][NextStart]_vars

(***************************************************************************)
(* A monitor whose device failed to open, its simulated reports and the    *)
(* flush loop                                                              *)
(***************************************************************************)
\* rounds of the simulated monitors in one run
MaxSimReads == 4

NextSimMon ==
    \/ \E alias \in Aliases, opens \in BOOLEAN :
          /\ opens \/ Cardinality(ctl_hist.open_failed) < MaxOpenFailures
          /\ InitController(alias, opens)
    \/ InitFinish
    \/ \E alias \in GeterAliases, states \in [1..MaxSimPin -> Bits] :
          running /\ mon_hist.nreads < MaxSimReads /\ SimulateRead(alias, states)
    \/ \E alias \in GeterAliases : CheckPin(alias)
    \/ FlushCombine
    \/ FlushSend

SpecSimMon == InitStart /\ [][NextSimMon]_vars

(***************************************************************************)
(* Specification of the SPI path                                           *)
(***************************************************************************)
\* a controller whose device could not be opened runs simulated (lines 368-373)
InitSpiVars ==
    /\ current_gpio_states = [a \in Aliases |-> [p \in Pins |-> None]]
    /\ frames = [a \in Aliases |-> <<>>]
    /\ set_call = [t \in Threads |-> IdleCall]
    /\ set_obs = [t \in Threads |-> NoObs]
    /\ set_hist = [ncalls |-> 0, first |-> <<>>, allsame |-> TRUE, overlap |-> FALSE, failed |-> FALSE, ndiff |-> 0]
    /\ simulate \in {f \in [Aliases -> BOOLEAN] : \A a \in Aliases : f[a] => a = "spi2"}
    /\ spi_queue = <<>>
    /\ spi_unfinished = 0
    /\ spi_processing_lock = None
    /\ spi_exec = [e \in Executors |-> SpiIdle]
    /\ spi_hist = NoSpiHist
    /\ data_buffer = [a \in GeterAliases |-> <<>>]
    /\ gpio_last_states = [a \in GeterAliases |-> [p \in MonPins |-> None]]
    /\ daemon_gpio_states = [a \in GeterAliases |-> [p \in MonPins |-> None]]
    /\ mon_loop = [a \in GeterAliases |-> <<>>]
    /\ gpio_change_buffer = <<>>
    /\ message_id_counter = 0
    /\ flush_call = [pc |-> "idle", combined |-> <<>>]
    /\ sent = [n |-> 0, last |-> NoMessage]
    /\ last_event = [a \in GeterAliases |-> NoEvent]
    /\ mon_hist = NoMonHist

InitSpi == InitSpiVars /\ InitDmnVars

NextSpi ==
    \/ \E cmd \in SpiCmds : HandleSpiCommand(cmd)
    \/ SpiLoopEnter
    \/ SpiQueueGet
    \/ SpiQueueTimeout
    \/ SpiLockAcquire
    \/ \E e \in Executors : SpiNextEntry(e)
    \/ \E e \in Executors : SpiTaskDone(e)
    \/ \E e \in Executors : SpiSimulated(e)
    \/ \E e \in Executors : SpiCsLow(e)
    \/ \E e \in Executors : SpiSkipSpace(e)
    \/ \E e \in Executors : SpiDataBit(e)
    \/ \E e \in Executors : SpiBadChar(e)
    \/ \E e \in Executors : SpiClkFirst(e)
    \/ \E e \in Executors : SpiClkSecond(e)
    \/ \E e \in Executors : SpiCsHigh(e)

SpecSpi == InitSpi /\ [][NextSpi]_vars

(***************************************************************************)
(* Set commands addressed to a controller that is shifting out an SPI      *)
(* transfer                                                                *)
(***************************************************************************)
\* set commands received in one run
MaxMixCalls == 2

\* SPI commands received in one run
MaxMixSpi == 1

\* handle_control_command lines 449-473 route mode "set" by the alias alone,
\* whatever the mode of the controller: set commands for the SPI controller,
\* one on a pin no bus uses and one on the chip-select pin of bus 1
MixSetCmds ==
    {[alias |-> "spi", mode |-> "set", kind |-> "single", gpios |-> <<p>>, values |-> <<1>>] :
        p \in {3, 6}}

MixSpiCmds == {[alias |-> "spi", mode |-> "spi", spis |-> <<SpiEntry(1, <<"1">>, "down")>>]}

NextMix ==
    \/ \E t \in Threads, cmd \in MixSetCmds :
          set_hist.ncalls < MaxMixCalls /\ HandleSetCommand(t, cmd)
    \/ \E t \in Threads : SetGpioGet(t)
    \/ \E t \in Threads : SetGpioStore(t)
    \/ \E t \in Threads : SetGpioReturnUnchanged(t)
    \/ \E t \in Threads : SetGpioSendOk(t)
    \/ \E cmd \in MixSpiCmds : spi_hist.ncmds < MaxMixSpi /\ HandleSpiCommand(cmd)
    \/ SpiLoopEnter
    \/ SpiQueueGet
    \/ SpiQueueTimeout
    \/ SpiLockAcquire
    \/ SpiNextEntry(SpiWorker)
    \/ SpiTaskDone(SpiWorker)
    \/ SpiCsLow(SpiWorker)
    \/ SpiDataBit(SpiWorker)
    \/ SpiClkFirst(SpiWorker)
    \/ SpiClkSecond(SpiWorker)
    \/ SpiCsHigh(SpiWorker)

SpecMix == Init /\ [][NextMix]_vars

\* ---------------------------------------------------------------------------
\* The SPI worker under every configured lag_time
\* ---------------------------------------------------------------------------

\* the largest configured number of milliseconds, in absolute value
MaxLagMs == 1

\* SPI commands received in one run
MaxLagCmds == 1

\* what a configuration can hold under lag_time: nothing, a string that is
\* no number, nan, inf, and whole and half milliseconds of either sign
LagValues ==
    {LagMissing, LagText, NaN, Inf}
        \cup {Fin(n, d) : n \in (-MaxLagMs)..MaxLagMs, d \in {1, 2}}

InitLag ==
    /\ InitSpiVars
    /\ \E cfg \in [SpiAliases -> LagValues] : InitDmnWith(cfg)

NextLag ==
    \/ \E cmd \in SpiCmds : spi_hist.ncmds < MaxLagCmds /\ HandleSpiCommand(cmd)
    \/ SpiLoopEnter
    \/ SpiQueueGet
    \/ SpiQueueTimeout
    \/ SpiLockAcquire
    \/ SpiNextEntry(SpiWorker)
    \/ SpiTaskDone(SpiWorker)
    \/ SpiSimulated(SpiWorker)
    \/ SpiCsLow(SpiWorker)
    \/ SpiSkipSpace(SpiWorker)
    \/ SpiDataBit(SpiWorker)
    \/ SpiBadChar(SpiWorker)
    \/ SpiClkFirst(SpiWorker)
    \/ SpiClkSecond(SpiWorker)
    \/ SpiCsHigh(SpiWorker)

SpecLag == InitLag /\ [][NextLag]_vars

\* ---------------------------------------------------------------------------
\* stop(): the flag is cleared, the SPI queue is joined, everything is closed
\* ---------------------------------------------------------------------------

\* line 1010: self.running = False; what the queue held at that moment is recorded
StopBegin ==
    /\ stop_call.pc = "idle"
    /\ running
    /\ running' = FALSE
    /\ stop_call' = [pc |-> "join", put_at_stop |-> spi_hist.ncmds,
                     taken_at_stop |-> spi_hist.ntaken]
    /\ UNCHANGED <<ioVars, controllers, loop_pc, status_sent, ctl_hist, ctlVars, setVars, spiVars, monVars>>

\* a join that returns at once, whatever is unfinished
StopJoinNoWait ==
    /\ stop_call.pc = "join"
    /\ stop_call' = [stop_call EXCEPT !.pc = "close"]
    /\ UNCHANGED <<ioVars, controllers, running, loop_pc, status_sent, ctl_hist,
                   ctlVars, setVars, spiVars, monVars>>

\* lines 1013-1016: spi_queue.join() returns once every task put was marked done
StopJoin ==
    /\ stop_call.pc = "join"
    /\ spi_unfinished = 0
    /\ stop_call' = [stop_call EXCEPT !.pc = "close"]
    /\ UNCHANGED <<ioVars, controllers, running, loop_pc, status_sent, ctl_hist,
                   ctlVars, setVars, spiVars, monVars>>

\* lines 1018-1065: sockets, clients and serial ports are closed, the socket files removed
StopClose ==
    /\ stop_call.pc = "close"
    /\ stop_call' = [stop_call EXCEPT !.pc = "done"]
    /\ sockets' = SocketsClosed
    /\ sub' = [s \in Subs |-> IF s \in Registered THEN [sub[s] EXCEPT !.chan = "closed"]
                                                  ELSE sub[s]]
    /\ status_clients' = <<>>
    /\ ser_open' = [a \in Aliases |-> FALSE]
    /\ UNCHANGED <<mon_started, gpio_reporting_active, enable_frames, io_hist, lag_config, lockVars, controllers,
                   running, loop_pc, status_sent, ctl_hist, ctlVars, setVars, spiVars, monVars>>

\* the tasks that were on the queue when stop() cleared the flag
QueuedAtStop == (stop_call.taken_at_stop + 1) .. stop_call.put_at_stop

NextStop ==
    \/ \E cmd \in SpiCmds : running /\ HandleSpiCommand(cmd)
    \/ SpiLoopEnter
    \/ SpiLoopExit
    \/ SpiQueueGet
    \/ SpiQueueTimeout
    \/ SpiLockAcquire
    \/ SpiNextEntry(SpiWorker)
    \/ SpiTaskDone(SpiWorker)
    \/ SpiSimulated(SpiWorker)
    \/ SpiCsLow(SpiWorker)
    \/ SpiSkipSpace(SpiWorker)
    \/ SpiDataBit(SpiWorker)
    \/ SpiBadChar(SpiWorker)
    \/ SpiClkFirst(SpiWorker)
    \/ SpiClkSecond(SpiWorker)
    \/ SpiCsHigh(SpiWorker)
    \/ StopBegin
    \/ StopJoin
    \/ StopClose

SpecStop == InitSpi /\ [][NextStop]_vars

\* ---------------------------------------------------------------------------
\* The long-lived loops: each tests self.running, then waits for its event
\* ---------------------------------------------------------------------------

\* whether the wait of a loop gives up by itself: select(..., 1.0) in run,
\* select(..., 0.1) in listen_gpio_controller, sleep(0.1) in simulate_gpio_controller,
\* sleep(wait_time) in start_gpio_monitoring, settimeout(1.0) in handle_status_client,
\* and a plain accept() in start_status_server
HasTimeout ==
    [l \in Loops |-> l # "accept"]

\* while self.running: the flag is set, the loop goes into its wait
LoopEnter(l) ==
    /\ loop_pc[l] = "check"
    /\ running
    /\ loop_pc' = [loop_pc EXCEPT ![l] = "wait"]
    /\ UNCHANGED <<ioVars, controllers, running, stop_call, status_sent, ctl_hist,
                   ctlVars, setVars, spiVars, monVars>>

\* while self.running: the flag is cleared, the loop ends
LoopExit(l) ==
    /\ loop_pc[l] = "check"
    /\ ~running
    /\ loop_pc' = [loop_pc EXCEPT ![l] = "exited"]
    /\ UNCHANGED <<ioVars, controllers, running, stop_call, status_sent, ctl_hist,
                   ctlVars, setVars, spiVars, monVars>>

\* the wait ends because its timeout ran out
LoopTimeout(l) ==
    /\ loop_pc[l] = "wait"
    /\ HasTimeout[l]
    /\ loop_pc' = [loop_pc EXCEPT ![l] = "check"]
    /\ UNCHANGED <<ioVars, controllers, running, stop_call, status_sent, ctl_hist,
                   ctlVars, setVars, spiVars, monVars>>

\* the wait ends because what it waits for arrived: a datagram, a byte, a
\* connection, a message of the subscriber
LoopEvent(l) ==
    /\ loop_pc[l] = "wait"
    /\ loop_pc' = [loop_pc EXCEPT ![l] = "check"]
    /\ UNCHANGED <<ioVars, controllers, running, stop_call, status_sent, ctl_hist,
                   ctlVars, setVars, spiVars, monVars>>

NextLoops ==
    \/ \E l \in Loops : LoopEnter(l)
    \/ \E l \in Loops : LoopExit(l)
    \/ \E l \in Loops : LoopTimeout(l)
    \/ \E l \in Loops : running /\ LoopEvent(l)
    \/ SpiLoopEnter
    \/ SpiQueueTimeout
    \/ SpiLoopExit
    \/ StopBegin
    \/ StopJoin
    \/ StopClose

SpecLoops == Init /\ [][NextLoops]_vars

\* ---------------------------------------------------------------------------
\* One SPI transfer on bus 1 of the real controller "spi", from an empty cache
\* ---------------------------------------------------------------------------

\* every string over 0 and 1 up to MaxBits characters
BitStrings == UNION {[1..n -> {"0", "1"}] : n \in 0..MaxBits}

TraceCmds ==
    { [alias |-> "spi", mode |-> "spi", spis |-> <<SpiEntry(1, data, edge)>>] :
        data \in BitStrings, edge \in {"down", "up"} }

NextTrace ==
    \/ \E cmd \in TraceCmds : spi_hist.ncmds = 0 /\ HandleSpiCommand(cmd)
    \/ SpiLoopEnter
    \/ SpiQueueGet
    \/ SpiQueueTimeout
    \/ SpiLockAcquire
    \/ SpiNextEntry(SpiWorker)
    \/ SpiTaskDone(SpiWorker)
    \/ SpiCsLow(SpiWorker)
    \/ SpiDataBit(SpiWorker)
    \/ SpiClkFirst(SpiWorker)
    \/ SpiClkSecond(SpiWorker)
    \/ SpiCsHigh(SpiWorker)

SpecTrace == Init /\ [][NextTrace]_vars

\* ---------------------------------------------------------------------------
\* One SPI transfer on bus 1 of "spi" whose bitstring carries whitespace
\* ---------------------------------------------------------------------------

\* characters of one bitstring
MaxBlankLen == 3

\* space, tab and newline
Blanks == {" ", "\t", "\n"}

\* every string over 0, 1 and the whitespace characters up to MaxBlankLen
BlankStrings == UNION {[1..n -> {"0", "1"} \cup Blanks] : n \in 0..MaxBlankLen}

BlankCmds ==
    { [alias |-> "spi", mode |-> "spi", spis |-> <<SpiEntry(1, data, edge)>>] :
        data \in BlankStrings, edge \in {"down", "up"} }

NextBlank ==
    \/ \E cmd \in BlankCmds : spi_hist.ncmds = 0 /\ HandleSpiCommand(cmd)
    \/ SpiLoopEnter
    \/ SpiQueueGet
    \/ SpiQueueTimeout
    \/ SpiLockAcquire
    \/ SpiNextEntry(SpiWorker)
    \/ SpiTaskDone(SpiWorker)
    \/ SpiCsLow(SpiWorker)
    \/ SpiSkipSpace(SpiWorker)
    \/ SpiDataBit(SpiWorker)
    \/ SpiBadChar(SpiWorker)
    \/ SpiClkFirst(SpiWorker)
    \/ SpiClkSecond(SpiWorker)
    \/ SpiCsHigh(SpiWorker)

SpecBlank == Init /\ [][NextBlank]_vars

(***************************************************************************)
(* Specification of the telemetry path                                     *)
(***************************************************************************)
\* the state in which the monitoring runs, with the history h
InitMonWith(h) ==
    /\ current_gpio_states = [a \in Aliases |-> [p \in Pins |-> None]]
    /\ frames = [a \in Aliases |-> <<>>]
    /\ set_call = [t \in Threads |-> IdleCall]
    /\ set_obs = [t \in Threads |-> NoObs]
    /\ set_hist = [ncalls |-> 0, first |-> <<>>, allsame |-> TRUE, overlap |-> FALSE, failed |-> FALSE, ndiff |-> 0]
    /\ simulate = [a \in Aliases |-> a = "geter2"]
    /\ spi_queue = <<>>
    /\ spi_unfinished = 0
    /\ spi_processing_lock = None
    /\ spi_exec = [e \in Executors |-> SpiIdle]
    /\ spi_hist = NoSpiHist
    /\ data_buffer = [a \in GeterAliases |-> <<>>]
    /\ gpio_last_states = [a \in GeterAliases |-> [p \in MonPins |-> None]]
    /\ daemon_gpio_states = [a \in GeterAliases |-> [p \in MonPins |-> None]]
    /\ mon_loop = [a \in GeterAliases |-> <<>>]
    /\ gpio_change_buffer = <<>>
    /\ message_id_counter = 0
    /\ flush_call = [pc |-> "idle", combined |-> <<>>]
    /\ sent = [n |-> 0, last |-> NoMessage]
    /\ last_event = [a \in GeterAliases |-> NoEvent]
    /\ mon_hist = h
    /\ InitDmnVars

InitMon == InitMonWith(NoMonHist)

NextMon ==
    \/ \E alias \in GeterAliases, chunk \in MonChunks :
          mon_hist.nreads < MaxReads /\ ListenRead(alias, chunk)
    \/ \E alias \in GeterAliases, states \in [1..MaxSimPin -> Bits] :
          mon_hist.nreads < MaxReads /\ SimulateRead(alias, states)
    \/ \E alias \in GeterAliases : CheckPin(alias)
    \/ FlushNothing
    \/ FlushCombine
    \/ FlushSend

SpecMon == InitMon /\ [][NextMon]_vars

\* the listeners of "geter" (real) and "geter2" (simulated) against the flush
\* loop, which runs at every interval while the daemon is running
NextFlush ==
    \/ \E alias \in GeterAliases, chunk \in MonChunks :
          mon_hist.nreads < MaxFlushReads /\ ListenRead(alias, chunk)
    \/ \E alias \in GeterAliases, states \in [1..MaxSimPin -> Bits] :
          mon_hist.nreads < MaxFlushReads /\ SimulateRead(alias, states)
    \/ \E alias \in GeterAliases : CheckPin(alias)
    \/ FlushNothing
    \/ FlushCombine
    \/ FlushSend

SpecFlush ==
    InitMon /\ [][NextFlush]_vars /\ WF_vars(FlushCombine) /\ WF_vars(FlushSend)

(***************************************************************************)
(* Specifications of the status subscribers: SpecSub, subscribers connect  *)
(* and close while the flush loop sends them the changes of "geter2";      *)
(* SpecQuery, one subscriber writes acks and queries                       *)
(***************************************************************************)
InitSub ==
    /\ current_gpio_states = [a \in Aliases |-> [p \in Pins |-> None]]
    /\ frames = [a \in Aliases |-> <<>>]
    /\ set_call = [t \in Threads |-> IdleCall]
    /\ set_obs = [t \in Threads |-> NoObs]
    /\ set_hist = [ncalls |-> 0, first |-> <<>>, allsame |-> TRUE, overlap |-> FALSE, failed |-> FALSE, ndiff |-> 0]
    /\ simulate = [a \in Aliases |-> a = "geter2"]
    /\ spi_queue = <<>>
    /\ spi_unfinished = 0
    /\ spi_processing_lock = None
    /\ spi_exec = [e \in Executors |-> SpiIdle]
    /\ spi_hist = NoSpiHist
    /\ data_buffer = [a \in GeterAliases |-> <<>>]
    /\ gpio_last_states = [a \in GeterAliases |-> [p \in MonPins |-> None]]
    /\ daemon_gpio_states = [a \in GeterAliases |-> [p \in MonPins |-> None]]
    /\ mon_loop = [a \in GeterAliases |-> <<>>]
    /\ gpio_change_buffer = <<>>
    /\ message_id_counter = 0
    /\ flush_call = [pc |-> "idle", combined |-> <<>>]
    /\ sent = [n |-> 0, last |-> NoMessage]
    /\ last_event = [a \in GeterAliases |-> NoEvent]
    /\ mon_hist = NoMonHist
    /\ controllers = Aliases
    /\ running = TRUE
    /\ stop_call = StopIdle
    /\ loop_pc = [l \in Loops |-> "check"]
    /\ status_sent = <<>>
    /\ ctl_hist = NoCtl
    /\ status_clients = <<>>
    /\ sub = [s \in Subs |-> NoSub]
    /\ mon_started = FALSE
    /\ gpio_reporting_active = {}
    /\ ser_open = [a \in Aliases |-> ~simulate[a]]
    /\ enable_frames = [a \in Aliases |-> <<>>]
    /\ io_hist = [a \in Aliases |-> NoIo]
    /\ sockets = SocketsOpen
    /\ lag_config = [a \in SpiAliases |-> LagMissing]
    /\ status_clients_lock = "free"
    /\ send_call = NoSend

NextSub ==
    \/ \E s \in Subs : SubAccept(s)
    \/ \E s \in Subs : SubRegister(s)
    \/ \E s \in Subs : SubLoopTest(s)
    \/ \E s \in Subs : SubPeerClose(s)
    \/ \E s \in Subs : SubRecvZero(s)
    \/ \E s \in Subs : SubRecvTimeout(s)
    \/ \E s \in Subs : SubRecvError(s)
    \/ \E s \in Subs : SubFinally(s)
    \/ \E s \in Subs : SubClose(s)
    \/ \E chunk \in {ChunkLow, ChunkHigh} :
          mon_hist.nreads < MaxSubReads /\ ListenRead("geter", chunk)
    \/ CheckPin("geter")
    \/ FlushCombine
    \/ FlushSend

SpecSub == InitMon /\ [][NextSub]_vars

(***************************************************************************)
(* The subscriber sockets and the registry lock: subscribers that query,   *)
(* the flush loop that broadcasts, every send in two steps                 *)
(***************************************************************************)
\* query_status messages a subscriber writes in one run
MaxLockWrites == 1

\* reads of the monitor listener in one run
MaxLockReads == 2

NextLock ==
    \/ \E s \in Subs : SubAccept(s)
    \/ \E s \in Subs : SubRegister(s)
    \/ \E s \in Subs : SubLoopTest(s)
    \/ \E s \in Subs : sub[s].nwrite < MaxLockWrites /\ SubWrite(s, "query_status")
    \/ \E s \in Subs : SubPeerClose(s)
    \/ \E s \in Subs : SubReplyBegin(s)
    \/ \E s \in Subs : SubReplyEnd(s)
    \/ \E s \in Subs : SubRecvZero(s)
    \/ \E s \in Subs : SubRecvTimeout(s)
    \/ \E s \in Subs : SubRecvError(s)
    \/ \E s \in Subs : SubFinally(s)
    \/ \E s \in Subs : SubClose(s)
    \/ \E chunk \in {ChunkLow, ChunkHigh} :
          mon_hist.nreads < MaxLockReads /\ ListenRead("geter", chunk)
    \/ CheckPin("geter")
    \/ FlushCombine
    \/ SendLock
    \/ SendBegin
    \/ SendEnd
    \/ SendUnlock

SpecLock == InitMon /\ [][NextLock]_vars

(***************************************************************************)
(* The broadcast of gpio_change messages, send by send, to subscribers     *)
(* that come and go                                                        *)
(***************************************************************************)
\* reads of the monitor listener in one run
MaxBcastReads == 3

NextBcast ==
    \/ \E s \in Subs : SubAccept(s)
    \/ \E s \in Subs : SubRegister(s)
    \/ \E s \in Subs : SubLoopTest(s)
    \/ \E s \in Subs : SubPeerClose(s)
    \/ \E s \in Subs : SubRecvZero(s)
    \/ \E s \in Subs : SubRecvTimeout(s)
    \/ \E s \in Subs : SubRecvError(s)
    \/ \E s \in Subs : SubFinally(s)
    \/ \E s \in Subs : SubClose(s)
    \/ \E chunk \in {ChunkLow, ChunkHigh} :
          mon_hist.nreads < MaxBcastReads /\ ListenRead("geter", chunk)
    \/ CheckPin("geter")
    \/ FlushCombine
    \/ SendLock
    \/ SendBegin
    \/ SendEnd
    \/ SendUnlock

SpecBcast == InitMon /\ [][NextBcast]_vars

\* one subscriber, connected while run is still starting its threads, and
\* what it writes: acks and queries, read in pieces of any size
NextQuery ==
    \/ StartGpioMonitoring
    \/ SubAccept(1)
    \/ SubRegister(1)
    \/ SubLoopTest(1)
    \/ \E type \in {"ack", "query_status"} :
          sub[1].nwrite < MaxSubWrites /\ SubWrite(1, type)
    \/ SubPeerClose(1)
    \/ \E k \in 1..(2 * MaxSubWrites) : SubRecv(1, k)
    \/ SubRecvZero(1)
    \/ SubRecvTimeout(1)
    \/ SubFinally(1)
    \/ SubClose(1)

SpecQuery == InitSub /\ [][NextQuery]_vars


(***************************************************************************)
(* Specification of the device handles: the monitoring thread starts, the  *)
(* listener of the real monitor controller reads, meets I/O errors and     *)
(* reconnects, a subscriber connects, set commands are served and stop()   *)
(* runs                                                                    *)
(***************************************************************************)
\* reads of the listener in one run
MaxIoReads == 2

\* set commands received in one run
MaxIoCalls == 2

IoCmds == {SetCommand(SetAlias, "single", <<5>>, <<1>>)}

NextIo ==
    \/ StartGpioMonitoring
    \/ mon_started /\ LoopEnter("listener")
    \/ mon_started /\ LoopExit("listener")
    \/ LoopTimeout("listener")
    \/ loop_pc["listener"] = "wait" /\ mon_hist.nreads < MaxIoReads /\ ListenRead("geter", ChunkLow)
    \/ CheckPin("geter")
    \/ \E opens \in BOOLEAN : ListenIOError("geter", opens)
    \/ \E cmd \in IoCmds : running /\ set_hist.ncalls < MaxIoCalls /\ HandleSetCommand(1, cmd)
    \/ SetGpioGet(1)
    \/ SetGpioStore(1)
    \/ SetGpioReturnUnchanged(1)
    \/ SetGpioSendOk(1)
    \/ SubAccept(1)
    \/ SubRegister(1)
    \/ SubLoopTest(1)
    \/ SubRecvTimeout(1)
    \/ SubRecvError(1)
    \/ SubFinally(1)
    \/ SubClose(1)
    \/ StopBegin
    \/ StopJoin
    \/ StopClose

SpecIo == InitSub /\ [][NextIo]_vars

(***************************************************************************)
(* Specification of the decode buffer: a stream of whole tokens reaches    *)
(* the listener of the real monitor in reads of any length                 *)
(***************************************************************************)
\* tokens of one stream
MaxTokens == 2

\* the tokens of the streams: text, pin and bit
TokenItems ==
    { <<<<"C", "H", "1", ":", "0">>, 1, 0>>,
      <<<<"C", "H", "0", "3", ":", "1">>, 3, 1>> }

\* what the device puts between two tokens
Separators == {<<>>, <<" ">>}

RECURSIVE StreamText(_)
\* the bytes of a stream: each token followed by its separator
StreamText(items) ==
    IF items = <<>> THEN <<>>
    ELSE Head(items)[1][1] \o Head(items)[2] \o StreamText(Tail(items))

RECURSIVE StreamTokens(_, _)
\* pin, bit and index of the last byte of each token of a stream
StreamTokens(items, offset) ==
    IF items = <<>> THEN <<>>
    ELSE LET end == offset + Len(Head(items)[1][1])
         IN <<[pin |-> Head(items)[1][2], bit |-> Head(items)[1][3], end |-> end]>>
            \o StreamTokens(Tail(items), end + Len(Head(items)[2]))

Streams == UNION {[1..n -> TokenItems \X Separators] : n \in 1..MaxTokens}

InitDecode ==
    \E items \in Streams :
        InitMonWith([NoMonHist EXCEPT !.stream = StreamText(items),
                                      !.tokens = StreamTokens(items, 0)])

NextDecode ==
    \/ \E n \in 1..Len(mon_hist.stream) :
          /\ mon_hist.pos + n <= Len(mon_hist.stream)
          /\ ListenRead("geter", SubSeq(mon_hist.stream, mon_hist.pos + 1, mon_hist.pos + n))
    \/ CheckPin("geter")

SpecDecode == InitDecode /\ [][NextDecode]_vars

(***************************************************************************)
(* Specification of the telemetry framing: the real monitor alone, fed     *)
(* reads that split and merge tokens                                       *)
(***************************************************************************)
NextFrame ==
    \/ \E chunk \in FrameChunks :
          mon_hist.nreads < MaxFrameReads /\ ListenRead("geter", chunk)
    \/ CheckPin("geter")
    \/ FlushNothing
    \/ FlushCombine
    \/ FlushSend

SpecFrame == InitMon /\ [][NextFrame]_vars

(***************************************************************************)
(* Properties of the pin-set path                                          *)
(***************************************************************************)
NoCallInFlight == \A t \in Threads : ~InFlight(t)

RECURSIVE ApplyFrame(_, _, _)
\* the pin values a 0x3A frame carries, applied pair by pair from byte i
\* (the parse of send_command's simulation branch, lines 71-82)
ApplyFrame(wire, frame, i) ==
    IF i + 1 > Len(frame) THEN wire
    ELSE ApplyFrame([wire EXCEPT ![frame[i]] = frame[i + 1]], frame, i + 2)

RECURSIVE WireAfter(_, _)
WireAfter(wire, fs) ==
    IF fs = <<>> THEN wire
    ELSE WireAfter(IF Head(fs)[1] = CMD_SET THEN ApplyFrame(wire, Head(fs), 2) ELSE wire,
                   Tail(fs))

\* per pin, the value carried by the most recent write frame (None: never written)
LastWritten(a) == WireAfter([p \in Pins |-> None], frames[a])

\* C1: when set_gpio calls run one after another and every transport write
\* succeeds, the number of frames written equals the number of calls whose
\* requested value differed from the cached value of a pin at the time of the
\* call (no cached value counts as differing), and a call that repeats the
\* cached values writes nothing and returns success.
C1_DiffSuppression ==
    (~set_hist.overlap /\ ~set_hist.failed) =>
        /\ NoCallInFlight => Len(frames[SetAlias]) = set_hist.ndiff
        /\ \A t \in Threads :
              (set_obs[t].ret # None /\ ~set_obs[t].diff) =>
                  (set_obs[t].ret = 1 /\ set_obs[t].wrote = 0)

\* three calls in sequence, one of them a repeat that was suppressed
C1_Witness ==
    /\ ~set_hist.overlap /\ ~set_hist.failed /\ NoCallInFlight
    /\ set_hist.ncalls = 3
    /\ Len(frames[SetAlias]) = 2
    /\ \E t \in Threads : set_obs[t].ret = 1 /\ ~set_obs[t].diff /\ set_obs[t].wrote = 0

\* C2: two set commands for the same pin and the same value, received back to
\* back (the first two commands of a run, the pin not cached before), cause
\* exactly one write, in every interleaving of their two threads.
C2_OneWriteForRepeatedSet ==
    (/\ set_hist.ncalls = 2 /\ set_hist.allsame /\ Len(set_hist.first) = 1
     /\ ~set_hist.failed /\ NoCallInFlight)
        => Len(frames[SetAlias]) = 1

\* C3: whenever no set_gpio call is in flight and no write has failed, the
\* cached value of every pin is the value carried by the most recent frame
\* written for that pin.
C3_CacheMatchesWire ==
    (NoCallInFlight /\ ~set_hist.failed) =>
        \A p \in Pins : current_gpio_states[SetAlias][p] = LastWritten(SetAlias)[p]

\* C4: when the transport write of a set_gpio call fails, the cached values of
\* the pins named in the call are what they were before the call (calls made
\* one after another).
C4_FailedWriteKeepsCache ==
    \A t \in Threads :
        (set_obs[t].failed /\ ~set_hist.overlap) =>
            \A i \in 1..Len(set_obs[t].req) :
                current_gpio_states[SetAlias][set_obs[t].req[i][1]]
                    = set_obs[t].pre[set_obs[t].req[i][1]]

(***************************************************************************)
(* Properties of the SPI path                                              *)
(***************************************************************************)
\* C5: at every instant at most one SPI transaction (chip-select assert to
\* chip-select deassert of one bit-banged transfer) is executing in the whole
\* process, across both SPI controllers and any queued spi / spi_multi commands.
C5_OneSpiTransaction ==
    Cardinality({e \in Executors : InTransaction(e)}) <= 1

\* the worker is inside a transfer on one controller, after a transfer on the
\* other one, while more SPI commands wait in the queue
C5_Witness ==
    /\ InTransaction(SpiWorker)
    /\ spi_exec[SpiWorker].alias = "spi2"
    /\ frames["spi"] # <<>>
    /\ Len(spi_queue) >= 1

(***************************************************************************)
(* Properties of the telemetry path                                        *)
(***************************************************************************)
Reads == mon_hist.reads

\* the listener of the real monitor has finished the loop of its latest read
ListenerDone == mon_loop["geter"] = <<>>

Change(p, b) == [gpio |-> p, bit |-> b]

\* the changes the latest two reads of the real monitor gave rise to
EventsOfLatestTwo == Reads[1].evs \o Reads[2].evs

\* the latest two reads were "CH1:0CH2:" into an empty decode buffer and then
\* "1CH3:0"
SplitFed ==
    /\ Len(Reads) = 2
    /\ Reads[1].chunk = ChunkSplitHead
    /\ Reads[1].buf_before = <<>>
    /\ Reads[2].chunk = ChunkSplitTail
    /\ ListenerDone

SplitTokens == <<Change(1, 0), Change(2, 1), Change(3, 0)>>

RECURSIVE ChangesFor(_, _)
\* of the tokens, those whose pin was observed before with the other bit
ChangesFor(prior, tokens) ==
    IF tokens = <<>> THEN <<>>
    ELSE (IF prior[Head(tokens).gpio] # None /\ prior[Head(tokens).gpio] # Head(tokens).bit
          THEN <<Head(tokens)>> ELSE <<>>) \o ChangesFor(prior, Tail(tokens))

\* C6: a change is handed to the broadcaster only when the newly observed bit
\* differs from the bit observed before for the same alias and pin; an
\* observation equal to the previous one produces no event (real and simulated
\* listeners).
C6_EventOnlyOnChange ==
    \A a \in GeterAliases :
        last_event[a] # NoEvent =>
            (last_event[a].prev # None /\ last_event[a].prev # last_event[a].bit)

\* both listeners have reported a change, and the latest read of the real
\* monitor repeated the bit observed before and was passed over
C6_Witness ==
    /\ last_event["geter"] # NoEvent /\ last_event["geter2"] # NoEvent
    /\ Len(Reads) = 2 /\ ListenerDone
    /\ Reads[2].chunk = ChunkLow /\ Reads[2].last_before[3] = 0
    /\ Reads[2].evs = <<>>

\* C7 as claimed: "CH1:0CH2:" then "1CH3:0" fed to an empty decode buffer yield
\* exactly the three changes 1:0, 2:1, 3:0, for every prior state in which none
\* of the three pins was observed with the same bit, the state with no prior
\* observation included.
C7_SplitYieldsThreeEvents ==
    (/\ SplitFed
     /\ \A k \in 1..3 : Reads[1].last_before[SplitTokens[k].gpio] # SplitTokens[k].bit)
        => EventsOfLatestTwo = SplitTokens

\* C7 as amended: the two reads yield, in order and once each, the change of
\* every pin among 1, 2, 3 that had been observed before with the opposite bit
\* (three changes when all three had been), and nothing for a pin never
\* observed before, whose token only sets its first state.
C7_SplitYieldsChangesOfObservedPins ==
    SplitFed => EventsOfLatestTwo = ChangesFor(Reads[1].last_before, SplitTokens)

\* all three pins were observed with the opposite bit and the split gave three changes
C7_Witness ==
    /\ SplitFed
    /\ \A k \in 1..3 : Reads[1].last_before[SplitTokens[k].gpio] = 1 - SplitTokens[k].bit
    /\ EventsOfLatestTwo = SplitTokens

\* pin 3, last observed high, went low then high in the latest read(s) of the
\* real monitor, read n of the latest two bringing the first of the two tokens,
\* with nothing pending for the alias before it and no flush since
LowHighSince(n) ==
    /\ Len(Reads) = 2
    /\ Reads[n].buf_before = <<>>
    /\ Reads[n].last_before[3] = 1
    /\ Reads[n].pend_before = 0
    /\ Reads[n].flushes_before = mon_hist.nflushes
    /\ ListenerDone

LowHighInOneRead == LowHighSince(2) /\ Reads[2].chunk = ChunkLowHigh

LowHighInTwoReads ==
    LowHighSince(1) /\ Reads[1].chunk = ChunkLow /\ Reads[2].chunk = ChunkHigh

\* what the next flush sends for the alias
NextFlushChanges(alias) ==
    LET c == Combined(gpio_change_buffer)
    IN IF \E k \in 1..Len(c) : c[k].alias = alias
       THEN c[CHOOSE k \in 1..Len(c) : c[k].alias = alias].change_gpio
       ELSE <<>>

BothTransitions == <<Change(3, 0), Change(3, 1)>>

\* C8: pin 3 going low then high before the next flush gives one change per
\* token and the flushed message lists both transitions in arrival order,
\* whether the two tokens come in one read or in two.
C8_LowThenHighBothReported ==
    /\ LowHighInOneRead =>
          (Reads[2].evs = BothTransitions /\ NextFlushChanges("geter") = BothTransitions)
    /\ LowHighInTwoReads =>
          (EventsOfLatestTwo = BothTransitions /\ NextFlushChanges("geter") = BothTransitions)

\* the entries of the latest message that carry changes of alias a
MessageEntries(a) ==
    {j \in 1..Len(sent.last.gpios) : sent.last.gpios[j].alias = a}

\* C9: the N changes of one alias buffered between two flushes go out in
\* exactly one gpio_change message, whose change list for the alias has N
\* entries: one message per flush, one entry per alias with changes.
C9_Coalescing ==
    /\ sent.n = mon_hist.nflushes - (IF flush_call.pc = "send" THEN 1 ELSE 0)
    /\ (flush_call.pc = "idle" /\ sent.n > 0) =>
         \A a \in GeterAliases :
            LET n == mon_hist.flushed[a]
            IN IF n = 0 THEN MessageEntries(a) = {}
               ELSE /\ Cardinality(MessageEntries(a)) = 1
                    /\ \A j \in MessageEntries(a) : Len(sent.last.gpios[j].change_gpio) = n

\* the latest message carries two changes of one alias
C9_Witness ==
    /\ flush_call.pc = "idle" /\ sent.n > 0
    /\ \E a \in GeterAliases :
        /\ mon_hist.flushed[a] = 2
        /\ \E j \in MessageEntries(a) : Len(sent.last.gpios[j].change_gpio) = 2

\* C10: the ids of the gpio_change messages are, in send order, consecutive
\* and strictly increasing (the k-th message sent carries id k); every flush
\* that sends takes exactly one id, whatever the number of aliases with
\* pending changes, and no id is issued twice.
C10_ConsecutiveIds ==
    /\ sent.n > 0 => sent.last.id = sent.n
    /\ message_id_counter = sent.n

\* the second message sent carries the changes of two aliases
C10_Witness ==
    /\ sent.n >= 2
    /\ Len(sent.last.gpios) = 2

(***************************************************************************)
(* Properties of the command routing                                       *)
(***************************************************************************)
\* the frames written so far, over all controllers
TotalFrames ==
    Len(frames[SetAlias]) + Len(frames["spi"]) + Len(frames["spi2"])
        + Len(frames["geter"]) + Len(frames["geter2"])

\* C14: a control datagram that is not valid JSON, that names an unknown
\* alias, or that is a batch whose pins and values differ in length causes no
\* transport write, no SPI queue entry and no cache change (its handling
\* changes nothing and starts no set_gpio call); the daemon keeps running and
\* the commands that follow are processed as usual (in sequential runs
\* without write failures, one frame per call that differs from the cache).
C14_MalformedDropped ==
    /\ [][\A data \in MalformedDatagrams :
            HandleControlCommand(data) => UNCHANGED <<ctlVars, setVars, spiVars>>]_vars
    /\ [](/\ running
          /\ (~set_hist.overlap /\ ~set_hist.failed /\ NoCallInFlight)
                => TotalFrames = set_hist.ndiff)

\* datagrams of the three malformed kinds were dropped, and a command that
\* came after one of them was carried out and wrote its frame
C14_Witness ==
    /\ MalformedDatagrams \subseteq ctl_hist.dropped
    /\ NumAccepted > ctl_hist.after_reject
    /\ ~set_hist.overlap /\ ~set_hist.failed /\ NoCallInFlight
    /\ frames[SetAlias] # <<>>

\* C15: a set command addressed to a monitor-mode or SPI-mode alias, or an SPI
\* command addressed to an alias that is not in SPI mode, is rejected: it
\* causes no transport write, no SPI queue entry and no cache change.  (In
\* this specification nothing else addresses "geter", and nothing else writes
\* to "spi".)
C15_MismatchedRejected ==
    /\ \A a \in {"geter", "spi"} :
          /\ frames[a] = <<>>
          /\ \A p \in Pins : current_gpio_states[a][p] = None
    /\ \A i \in 1..Len(spi_queue) : ControllerMode[spi_queue[i].alias] = "spi"

(***************************************************************************)
(* Properties of the start-up and of the status socket                     *)
(***************************************************************************)
\* the message carries an id, and the id was issued by get_next_message_id
HasSequenceId(msg) == "id" \in DOMAIN msg /\ msg.id \in 1..message_id_counter

\* C11: every message sent on the status socket, of type gpio_change or of
\* type current_status, carries an id taken from the one increasing sequence.
C11_EveryMessageHasId ==
    /\ sent.n > 0 => HasSequenceId(sent.last)
    /\ status_sent # <<>> => HasSequenceId(status_sent[1])

\* the entries of the latest current_status message for alias a
RepliedFor(a) ==
    {k \in 1..Len(status_sent[1].gpios) : status_sent[1].gpios[k].alias = a}

\* C12: when the device of a configured controller fails to open at start-up,
\* the daemon still reaches its running state with every configured alias
\* registered, the failed one simulated; set commands addressed to a
\* controller that opened still produce their writes (sequential calls, one
\* frame per call that differs from the cache); and query_status returns, for
\* every monitor controller that opened, the pin states observed so far.
C12_StartsDespiteOpenFailure ==
    running =>
        /\ controllers = Aliases
        /\ \A a \in Aliases : simulate[a] <=> a \in ctl_hist.open_failed
        /\ (SetAlias \notin ctl_hist.open_failed /\ ~set_hist.overlap /\ NoCallInFlight)
              => Len(frames[SetAlias]) = set_hist.ndiff
        /\ (status_sent # <<>> /\ ctl_hist.query_at = mon_hist.nreads) =>
              \A a \in GeterAliases \ ctl_hist.open_failed :
                  /\ Cardinality(RepliedFor(a)) = 1
                  /\ \A k \in RepliedFor(a) :
                        status_sent[1].gpios[k].current_gpio_states = daemon_gpio_states[a]

\* one monitor failed to open; the daemon runs, a set command was written to
\* the sender's device and a status query returned the pin observed on the
\* monitor that opened
C12_Witness ==
    /\ running
    /\ ctl_hist.open_failed = {"geter2"}
    /\ NoCallInFlight /\ frames[SetAlias] # <<>>
    /\ status_sent # <<>> /\ ctl_hist.query_at = mon_hist.nreads
    /\ \E k \in RepliedFor("geter") : status_sent[1].gpios[k].current_gpio_states[3] = 1

\* the SPI path is at rest: nothing queued, nothing being shifted
SpiQuiet ==
    /\ spi_queue = <<>>
    /\ \A e \in Executors : spi_exec[e].pc \in {"idle", "get", "exited"}

\* C13: a controller in simulation mode ends up with the same state cache as a
\* real controller whose transport writes all succeed: whenever the simulated
\* "spi2" and the real "spi" have received the same SPI commands and all of them
\* have been carried out, their caches are equal.
C13_SimulationSameCache ==
    ( /\ simulate["spi2"] /\ ~simulate["spi"]
      /\ spi_hist.received["spi"] = spi_hist.received["spi2"]
      /\ SpiQuiet )
    => current_gpio_states["spi"] = current_gpio_states["spi2"]

C17_StopReturns ==
    (stop_call.pc = "join" /\ spi_unfinished > 0) => spi_exec[SpiWorker].pc # "exited"

\* C18: after the running flag is cleared every long-lived loop leaves by its
\* own wait timeouts, with no further connection, datagram or byte: a loop that
\* is still in its wait is in a wait that times out.
C18_LoopsExitByTimeout ==
    ~running => \A l \in Loops : loop_pc[l] = "wait" => HasTimeout[l]

\* the pins of bus 1 of "spi" and a write as the transport records it
TraceCs == SpiPinGet("spi", "cs", 1)
TraceData == SpiPinGet("spi", "data", 1)
TraceClk == SpiPinGet("spi", "clk", 1)
PinWrite(pin, level) == SetFrame(<<<<pin, level>>>>)

\* the reference: per bit a data write when the bit differs from the one
\* before it (always for the first), then the two clock levels of the edge mode
RECURSIVE RefBits(_, _, _)
RefBits(data, i, edge) ==
    IF i > Len(data) THEN <<>>
    ELSE (IF i = 1 \/ data[i] # data[i - 1]
          THEN <<PinWrite(TraceData, DigitValue(data[i]))>> ELSE <<>>)
         \o (IF edge = "down"
             THEN <<PinWrite(TraceClk, 1), PinWrite(TraceClk, 0)>>
             ELSE <<PinWrite(TraceClk, 0), PinWrite(TraceClk, 1)>>)
         \o RefBits(data, i + 1, edge)

RefTrace(data, edge) ==
    <<PinWrite(TraceCs, 0)>> \o RefBits(data, 1, edge) \o <<PinWrite(TraceCs, 1)>>

\* the data levels present at the sampling edges of a recorded trace: a clock
\* write to low after high for "down", to high after low for "up"
RECURSIVE SampledAt(_, _, _, _, _)
SampledAt(trace, k, edge, dataLevel, clkLevel) ==
    IF k > Len(trace) THEN <<>>
    ELSE LET pin == trace[k][2]
             level == trace[k][3]
             sampling == IF edge = "down" THEN 0 ELSE 1
         IN IF pin = TraceData THEN SampledAt(trace, k + 1, edge, level, clkLevel)
            ELSE IF pin = TraceClk
                 THEN (IF level = sampling /\ clkLevel = 1 - sampling
                       THEN <<dataLevel>> ELSE <<>>)
                      \o SampledAt(trace, k + 1, edge, dataLevel, level)
                 ELSE SampledAt(trace, k + 1, edge, dataLevel, clkLevel)

IsPrefixOf(s, t) == Len(s) <= Len(t) /\ SubSeq(t, 1, Len(s)) = s

\* C19: for every bitstring and both edge modes, from an empty cache, the
\* transport records chip-select low, then per bit the data write (only when the
\* bit differs from the previous one) and the two clock writes of the edge mode,
\* then chip-select high; replayed, the trace has one sampling edge per bit with
\* the data line at that bit's value.
C19_SpiReferenceTrace ==
    (spi_hist.ncmds = 1 /\ spi_hist.ntaken <= 1) =>
        LET entry == spi_hist.received["spi"][1][2][1]
            ref == RefTrace(entry.spi_data, entry.cs_collection)
        IN /\ IsPrefixOf(frames["spi"], ref)
           /\ 1 \in spi_hist.done =>
                /\ frames["spi"] = ref
                /\ SampledAt(frames["spi"], 1, entry.cs_collection, None, None)
                     = [i \in 1..Len(entry.spi_data) |-> DigitValue(entry.spi_data[i])]

\* the transfer of 1 1 0 sampled on the rising edge is finished
C19_Witness ==
    /\ 1 \in spi_hist.done
    /\ spi_hist.received["spi"] = <<<<"spi", <<SpiEntry(1, <<"1", "1", "0">>, "up")>>>>>>
    /\ Len(frames["spi"]) = 10

\* the changes an alias has in a list of merged entries, and how many entries
EntriesOf(gpios, a) == SelectSeq(gpios, LAMBDA e : e.alias = a)

ChangesOf(gpios, a) ==
    IF EntriesOf(gpios, a) = <<>> THEN <<>> ELSE EntriesOf(gpios, a)[1].change_gpio

\* the changes buffered for an alias, in the order of the buffer
BufferedFor(a) ==
    IF DictHas(gpio_change_buffer, a)
    THEN ExtendAll(gpio_change_buffer[DictGet(gpio_change_buffer, a)][2]) ELSE <<>>

\* C20: every change handed to the broadcaster goes into exactly one
\* gpio_change message, in the order in which the changes of its alias were
\* buffered: the buffer holds exactly the changes handed over since the last
\* flush; what a flush has taken is exactly what it merges, one entry per alias;
\* the message sent holds exactly that; and under a fair flush loop whatever is
\* buffered is eventually taken and whatever is taken is eventually sent.
C20_EveryChangeInOneMessage ==
    /\ [](\A a \in GeterAliases :
            /\ BufferedFor(a) = mon_hist.pending[a]
            /\ Len(EntriesOf(flush_call.combined, a)) <= 1
            /\ ChangesOf(flush_call.combined, a) = mon_hist.taking[a])
    /\ [][FlushSend =>
            /\ sent'.n = sent.n + 1
            /\ \A a \in GeterAliases :
                 /\ Len(EntriesOf(sent'.last.gpios, a)) <= 1
                 /\ ChangesOf(sent'.last.gpios, a) = mon_hist.taking[a]]_vars
    /\ \A a \in GeterAliases :
         /\ (mon_hist.pending[a] # <<>>) ~> (mon_hist.pending[a] = <<>>)
         /\ (mon_hist.taking[a] # <<>>) ~> (mon_hist.taking[a] = <<>>)

\* a message with two changes of "geter" has been sent while a further change
\* was already buffered
C20_Witness ==
    /\ sent.n >= 1
    /\ Len(ChangesOf(sent.last.gpios, "geter")) >= 2
    /\ gpio_change_buffer # <<>>

\* C21: a subscriber whose send failed, or whose read returned no bytes, is
\* taken out of the registry and its socket closed; the registry never holds a
\* socket twice, holds open sockets only, a thread that has finished has left
\* the registry (whichever of the flush loop and the thread removed it first),
\* and the daemon keeps running.
C21_FailedSubscriberRemoved ==
    /\ [](/\ running
          /\ \A i, j \in 1..Len(status_clients) :
                status_clients[i] = status_clients[j] => i = j
          /\ \A s \in Subs :
                /\ s \in Registered => sub[s].chan = "open"
                /\ sub[s].pc \in {"close", "done"} => s \notin Registered
                /\ sub[s].pc = "done" => sub[s].chan = "closed")
    /\ [][FlushSend =>
            \A s \in Registered :
               sub[s].peer = "gone" => s \notin Registered' /\ sub'[s].chan = "closed"]_vars
    /\ [][\A s \in Subs : SubRecvZero(s) => sub'[s].pc = "finally"]_vars

\* the flush loop has removed and closed subscriber 1 while its thread is
\* still in recv, and subscriber 2 has left by itself
C21_Witness ==
    /\ sub[1].chan = "closed" /\ sub[1].pc = "recv"
    /\ sub[2].pc = "done"
    /\ sent.n >= 1
    /\ status_clients = <<>>

\* C22: when the send of a gpio_change message to one subscriber fails, every
\* other registered subscriber gets that message and stays registered for the
\* later ones, and no pin-state cache, observed state or SPI queue changes.
C22_SendFailureIsolated ==
    [][(FlushSend /\ Disconnected(status_clients) # {}) =>
          /\ \A s \in Registered :
                sub[s].peer = "up" =>
                   /\ sub'[s].last_id = message_id_counter'
                   /\ s \in Registered'
          /\ UNCHANGED <<current_gpio_states, frames, spi_queue, spi_unfinished,
                         gpio_last_states, daemon_gpio_states>>]_vars

\* the second message failed for subscriber 1, registered first, and reached
\* subscriber 2
C22_Witness ==
    /\ sub[1].chan = "closed" /\ sub[1].pc = "recv" /\ sub[1].last_id = 1
    /\ sub[2].last_id = 2
    /\ status_clients = <<2>>

\* C23: every query_status a connected subscriber writes is answered with
\* exactly one current_status and the subscriber stays registered, however its
\* bytes are grouped into reads and however early it asks: once its thread has
\* read everything a still connected subscriber wrote, it has sent as many
\* replies as there were queries and the subscriber is in the registry.
C23_QueryAnswered ==
    \A s \in Subs :
       ( /\ sub[s].peer = "up"
         /\ sub[s].stream = <<>>
         /\ sub[s].pc \in {"loop", "recv", "finally", "close", "done"} )
       => /\ sub[s].nstatus = sub[s].nquery
          /\ s \in Registered

\* C24: after an I/O error on a monitor controller that is followed by a
\* successful reconnect, the command that enables continuous reporting (0x3E
\* 0xFF for default bit 0, 0x3D 0xFF for default bit 1) has been written
\* again by the time the listener reads telemetry from the device
C24_EnableFrameAfterReconnect ==
    [][\A a \in GeterAliases :
          (io_hist[a].reconnected /\ \E chunk \in MonChunks : ListenRead(a, chunk))
          => /\ Len(enable_frames[a]) > io_hist[a].mark
             /\ enable_frames[a][Len(enable_frames[a])] = EnableFrame(DefaultBit[a])]_vars

\* C25: once stop() has returned, both sockets are closed, the subscriber
\* registry is empty, both socket files are removed and every controller's
\* device handle is closed, and stays closed: no listener and no command
\* thread in flight opens one again
C25_StopLeavesAllClosed ==
    stop_call.pc = "done"
    => /\ sockets.control = "closed"
       /\ sockets.status = "closed"
       /\ sockets.files = {}
       /\ status_clients = <<>>
       /\ \A a \in Aliases : ~ser_open[a]

\* the tokens of the stream whose last byte has been read
TokensRead == {k \in 1..Len(mon_hist.tokens) : mon_hist.tokens[k].end <= mon_hist.pos}

\* the index of the last byte of the last token read, 0 when there is none
LastTokenEnd ==
    IF TokensRead = {} THEN 0 ELSE mon_hist.tokens[Cardinality(TokensRead)].end

\* C26: for every stream of whole CH<n>:<bit> tokens and every cutting of it
\* into reads, the tokens extracted read by read are, in order and each once,
\* the tokens of the stream whose last byte has arrived, and after each read
\* the decode buffer holds no whole token, only what follows the last one
C26_CutsExtractEachTokenOnce ==
    mon_hist.stream # <<>>
    => /\ mon_hist.extracted =
             [k \in 1..Cardinality(TokensRead) |->
                 <<mon_hist.tokens[k].pin, mon_hist.tokens[k].bit>>]
       /\ FindAll(data_buffer["geter"]) = <<>>
       /\ Without(data_buffer["geter"], Whitespace) =
             Without(SubSeq(mon_hist.stream, LastTokenEnd + 1, mon_hist.pos), Whitespace)

\* the first token was extracted by an earlier read and the second one is
\* partly in the buffer
C26_Witness ==
    /\ Len(mon_hist.extracted) = 1
    /\ mon_hist.nreads >= 2
    /\ Len(mon_hist.tokens) >= 2
    /\ Len(data_buffer["geter"]) >= 2
    /\ mon_hist.pos < mon_hist.tokens[2].end

\* the SPI buses a command can name
SpiNums == 1..3

\* C27: every SPI transaction that asserts chip-select also deasserts it,
\* whatever the bitstring (empty, or with characters other than 0, 1 and
\* space): when no thread is inside a transfer on a chip-select pin of a real
\* controller, the last level written to that pin is not low
C27_CsNeverLeftAsserted ==
    \A a \in SpiAliases, n \in SpiNums :
        LET cs == SpiPinGet(a, "cs", n)
        IN ( /\ Truthy(cs)
             /\ ~simulate[a]
             /\ \A e \in Executors :
                   ~(InTransaction(e) /\ spi_exec[e].alias = a /\ spi_exec[e].cs_pin = cs) )
           => LastWritten(a)[cs] # 0

\* C28: whitespace in a bitstring is skipped: once the worker is through with
\* the transfer, the pin writes recorded are those of the same bitstring with
\* every space, tab and newline removed
C28_WhitespaceSkipped ==
    ( /\ spi_hist.ncmds = 1 /\ spi_hist.ntaken = 1
      /\ spi_exec[SpiWorker].pc \in {"idle", "get"} )
    => LET entry == spi_hist.received["spi"][1][2][1]
       IN frames["spi"] = RefTrace(Without(entry.spi_data, Blanks), entry.cs_collection)

\* C29: the delay the worker hands to the transfers of a task is the lag_time
\* configured for the task's alias, milliseconds turned into seconds, when
\* that is a positive number; it is 1 ms when lag_time is missing, is no
\* number, is zero or is negative; and it is always strictly positive
C29_LagTimeFromConfig ==
    spi_exec[SpiWorker].pc \notin {"idle", "get", "exited"}
    => LET cfg == lag_config[spi_exec[SpiWorker].alias]
           lag == spi_exec[SpiWorker].lag_time
       IN /\ (cfg.kind = "fin" /\ cfg.num > 0)
                => (lag.kind = "fin" /\ lag.num * cfg.den * 1000 = cfg.num * lag.den)
          /\ (cfg.kind \in {"missing", "text"} \/ (cfg.kind = "fin" /\ cfg.num <= 0))
                => (lag.kind = "fin" /\ lag.num * 1000 = lag.den)
          /\ lag.kind = "inf" \/ (lag.kind = "fin" /\ lag.num > 0 /\ lag.den > 0)

C31_SpiQueueBounded == Len(spi_queue) < MaxSpiCmds

\* C32: the step in which the ingress loop receives a datagram writes nothing to
\* any transport, changes no cached pin state and runs no SPI transaction; the
\* write of an accepted command happens in a later step of its own thread
C32_IngressNeverWrites ==
    [][NumHandled' # NumHandled =>
          /\ frames' = frames
          /\ current_gpio_states' = current_gpio_states
          /\ spi_exec' = spi_exec]_vars

\* a datagram was received while the write of an earlier command was pending
C32_Witness ==
    /\ set_hist.overlap
    /\ \E t, u \in Threads :
          /\ t # u /\ InFlight(u)
          /\ set_call[t].pc = "send" /\ set_call[t].changed # <<>>

\* C33: while the flush loop holds the subscriber-registry lock it is inside no
\* socket send, so that a send that blocks delays neither the registration nor
\* the removal of another subscriber
C33_NoSendUnderRegistryLock ==
    status_clients_lock = "flush" => \A s \in Subs : "flush" \notin send_call.busy[s]

\* C37: at most one thread at a time is inside a send on a subscriber's socket
C37_OneSenderPerChannel ==
    \A s \in Subs : Cardinality(send_call.busy[s]) <= 1

\* C34: one call of send_command calls reconnect at most once, returns failure
\* whenever its write met an I/O error, and writes the frame at most once
C34_OneReconnectPerWrite ==
    \A t \in Threads :
        /\ set_obs[t].reconnects <= 1
        /\ set_obs[t].failed => set_obs[t].ret = 0
        /\ set_obs[t].wrote <= 1

\* the entries of the command the SPI worker has taken last
TakenSpis == spi_hist.puts[spi_hist.ntaken].spis

\* the SPI worker is between the get of a task and its end
InTask == spi_exec[SpiWorker].pc \notin {"idle", "get"}

\* the three pins of the entry's bus are configured for the alias
Mapped(alias, entry) ==
    /\ Truthy(SpiPinGet(alias, "clk", entry.spi_num))
    /\ Truthy(SpiPinGet(alias, "data", entry.spi_num))
    /\ Truthy(SpiPinGet(alias, "cs", entry.spi_num))

\* the worker is inside set_spi for an entry
InSetSpi == spi_exec[SpiWorker].pc \in {"sim", "cs_low", "bit", "clk_first", "clk_second"}

\* C35: the worker goes through the entries of the command it has taken in
\* their listed order, one at a time, and runs nothing of any other command
\* until the task ends; an entry whose bus lacks a configured pin is passed
\* over and the entries after it are still gone through
C35_MultiInListedOrder ==
    /\ [](InTask =>
            LET x == spi_exec[SpiWorker]
                n == Len(TakenSpis) - Len(x.todo)
            IN /\ n >= 0
               /\ x.todo = SubSeq(TakenSpis, n + 1, Len(TakenSpis))
               /\ x.alias = spi_hist.puts[spi_hist.ntaken].alias
               /\ InSetSpi =>
                     /\ n >= 1
                     /\ Mapped(x.alias, TakenSpis[n])
                     /\ x.data = TakenSpis[n].spi_data
                     /\ x.cs_pin = SpiPinGet(x.alias, "cs", TakenSpis[n].spi_num))
    /\ [][InTask /\ InTask' =>
            /\ spi_hist'.ntaken = spi_hist.ntaken
            /\ \/ spi_exec'[SpiWorker].todo = spi_exec[SpiWorker].todo
               \/ /\ spi_exec[SpiWorker].todo # <<>>
                  /\ spi_exec'[SpiWorker].todo = Tail(spi_exec[SpiWorker].todo)]_vars
    /\ [][(/\ spi_exec[SpiWorker].pc = "run"
           /\ spi_exec[SpiWorker].todo # <<>>
           /\ ~Mapped(spi_exec[SpiWorker].alias, Head(spi_exec[SpiWorker].todo))
           /\ spi_exec'[SpiWorker] # spi_exec[SpiWorker])
          => /\ spi_exec'[SpiWorker].pc = "run"
             /\ spi_exec'[SpiWorker].todo = Tail(spi_exec[SpiWorker].todo)]_vars

\* the worker is inside set_spi for the entry that follows an entry it passed over
C35_Witness ==
    /\ InTask /\ InSetSpi
    /\ LET n == Len(TakenSpis) - Len(spi_exec[SpiWorker].todo)
       IN /\ n >= 3
          /\ Mapped(spi_exec[SpiWorker].alias, TakenSpis[n - 2])
          /\ ~Mapped(spi_exec[SpiWorker].alias, TakenSpis[n - 1])

\* chip-select of the transfer the worker runs on the alias is low: set_spi has
\* written it low and has not yet written it high
CsAsserted(alias) ==
    /\ spi_exec[SpiWorker].alias = alias
    /\ spi_exec[SpiWorker].pc \in {"bit", "clk_first", "clk_second"}

\* C36: while chip-select of an SPI transfer on a controller is asserted, every
\* frame written to that controller is written by the SPI worker: no frame of
\* a set command reaches the transport in between
C36_NoSetFrameInsideTransfer ==
    [][\A a \in SpiAliases :
          (CsAsserted(a) /\ frames'[a] # frames[a]) =>
              spi_exec'[SpiWorker] # spi_exec[SpiWorker]]_vars

\* C38: set commands for a controller take effect in the order their datagrams
\* were received: once every command received has been carried out, the value
\* the wire holds for the pin is the value of the command received last
C38_LastReceivedWins ==
    (set_hist.ncalls > 0 /\ \A t \in Threads : ~InFlight(t)) =>
        LastWritten(SetAlias)[OrderPin] = OrderValue(set_hist.ncalls)

\* C39: a monitor controller that runs simulated because its device failed to
\* open has no entry in any gpio_change message
C39_SimulatedMonitorSilent ==
    \A a \in GeterAliases \cap ctl_hist.open_failed : MessageEntries(a) = {}

\* C40: a subscriber is sent a gpio_change message only as part of its
\* broadcast, with the id just issued, which is the id after the one it was
\* sent before (no id twice, none left out); when the broadcast of a message
\* ends, every subscriber in the registry has been sent that message
C40_EveryMessageOnceInOrder ==
    /\ [][\A s \in Subs :
            sub'[s].last_id # sub[s].last_id =>
                /\ status_clients_lock = "flush"
                /\ sub'[s].last_id = message_id_counter
                /\ sub[s].last_id # 0 => sub'[s].last_id = sub[s].last_id + 1]_vars
    /\ [][(status_clients_lock = "flush" /\ status_clients_lock' = "free") =>
            \A s \in Subs :
                (\E k \in 1..Len(status_clients') : status_clients'[k] = s) =>
                    sub'[s].last_id = message_id_counter]_vars
    /\ [][(status_clients_lock = "free" /\ status_clients_lock' = "free") =>
            message_id_counter' = message_id_counter]_vars

\* a registered subscriber has been sent two messages in a row and another
\* subscriber has left the registry in the meantime
C40_Witness ==
    \E s, r \in Subs :
        /\ s \in Registered /\ sub[s].last_id >= 2
        /\ r # s /\ r \notin Registered /\ sub[r].pc \in {"finally", "close", "done"}
        /\ sub[r].last_id >= 1

====
